---- MODULE Spec2Model ----
(***************************************************************************)
(* Model of the Facebook Ads Library scraper.                              *)
(*                                                                         *)
(*  Part 1  the acquisition loop: BrowserController                        *)
(*          .scroll_to_bottom_and_get_html (scrapers/browser_controller.py,*)
(*          the same code as main.py's scroll_to_bottom_and_get_html) and  *)
(*          OptimizedBrowserController.optimized_scroll_to_bottom (new.py) *)
(*  Part 2  record extraction: FacebookAdScraper (scrapers/ad_scraper.py), *)
(*          extract_ad_times (utils/date_utils.py) and                     *)
(*          BatchAdProcessor.process_ads_in_batches (new.py)               *)
(*  Part 3  single calls of the functions of MediaExtractor                *)
(*          (scrapers/media_extractor.py) and of utils/date_utils.py       *)
(*  Part 4  consecutive runs of scroll_to_bottom_and_get_html in one       *)
(*          process and their check_for_stop threads                       *)
(*  Part 5  AdaptiveScrollController (new.py): the adaptive wait           *)
(*  Part 6  ConcurrentKeywordProcessor.process_keywords_batch (new.py)     *)
(***************************************************************************)
EXTENDS Integers, Sequences, FiniteSets, TLC

VARIABLES
    \* ---- acquisition run ----
    variant,          \* "basic": BrowserController, "optimized": OptimizedBrowserController
    pc,               \* position of the main thread in the run
    stop_scrolling,   \* the nonlocal cancellation flag
    listener,         \* the check_for_stop thread: "none", "waiting", "finished"
    scroll_count,
    last_height,
    stall_count,
    new_height,       \* local of the iteration (basic)
    element_count,    \* local of the iteration (basic)
    content_loaded,   \* local of the iteration (optimized)
    last_visible,     \* ElementVisibilityDetector.last_visible_elements (optimized)
    page_height,      \* the page: document.body.scrollHeight
    page_items,       \* the page: number of elements matching AD_WRAPPER_SELECTOR
    probe,            \* the browser session: "ok" or "gone"
    handled,          \* which except clause of the run has executed
    source_calls,     \* what each call of sb.get_page_source() produced
    result,           \* the value the run returned
    outcome,          \* "running", "returned", "raised"
    prev_sample,      \* history: the sample <<height, count>> of the previous iteration
    max_sample,       \* history: the largest height among the growth-check samples of
                      \* the run (new_height, final_height), 0 before any sample
    \* ---- extraction ----
    xpc,              \* position of the extraction call
    xmode,            \* "single": scrape_single_ad, "plain": scrape_facebook_ads,
                      \* "batched": process_ads_in_batches
    html,             \* the snapshot: its item containers in document order
    ad_wrappers,      \* the matched item containers, in document order
    keyword,
    clock,            \* datetime.now(), in ticks
    batch_size,
    batch_idx,
    pos,              \* index of the next container (within the batch when batched)
    batch_results,
    scraped_data,     \* the list being built / returned
    \* ---- one call of a function (media_extractor.py, date_utils.py,
    \*      try_load_more_content) ----
    fn,               \* the function called, "none" when there is no such call
    fpc,              \* "idle", "call" (about to run), "done" (returned or raised)
    args,             \* its arguments
    ret,              \* its outcome
    \* ---- consecutive acquisition runs in one process ----
    run_count,        \* calls of scroll_to_bottom_and_get_html so far
    rpc,              \* "idle": no run in progress, "looping": the last run is in its loop
    flags,            \* stop_scrolling of each run (the nonlocal of its check_for_stop)
    threads,          \* stop_thread of each run: "waiting" (in input()) or "finished"
    endings,          \* how each run left its loop: "running", "flag", or the exception
    \* ---- AdaptiveScrollController (new.py) ----
    base_wait_time,       \* a wait is a pair <<n, k>> that stands for n / 10^k seconds
    current_wait_time,
    scroll_attempts,      \* metrics.scroll_attempts
    successful_scrolls,   \* metrics.successful_scrolls
    load_times,           \* the deque(maxlen=10): one entry per attempt, held as the
                          \* attempt's outcome (history) in place of its duration
    \* ---- ConcurrentKeywordProcessor.process_keywords_batch (new.py) ----
    keywords,         \* the argument
    max_concurrent,
    kpc,              \* "call", "batch" (inside _process_single_batch), "between", "done"
    batch_start,      \* index in keywords of the first keyword of the current batch
    tasks,            \* per keyword index, the future: "unsubmitted", "queued",
                      \* "running", "returned", "raised", "collected"
    raising,          \* the keyword indexes whose scrape raised (history)
    kw_results,       \* batch_results of _process_single_batch: keyword -> 'success'
    all_results,      \* the result mapping: keyword -> 'success'
    failed_keywords   \* self.failed_keywords

acqVars == <<variant, pc, stop_scrolling, listener, scroll_count, last_height,
             stall_count, new_height, element_count, content_loaded,
             last_visible, page_height, page_items, probe, handled, source_calls,
             result, outcome, prev_sample, max_sample>>

exVars == <<xpc, xmode, html, ad_wrappers, keyword, clock, batch_size, batch_idx, pos,
            batch_results, scraped_data>>

fnVars == <<fn, fpc, args, ret>>

runVars == <<run_count, rpc, flags, threads, endings>>

adaptVars == <<base_wait_time, current_wait_time, scroll_attempts, successful_scrolls,
               load_times>>

kwVars == <<keywords, max_concurrent, kpc, batch_start, tasks, raising, kw_results,
            all_results, failed_keywords>>

\* The variables of the parts 4 to 6.
laterVars == <<runVars, adaptVars, kwVars>>

vars == <<acqVars, exVars, fnVars, laterVars>>

(***************************************************************************)
(* Bounds and program constants                                            *)
(***************************************************************************)
MaxScrolls == 4       \* iterations explored per run
MaxHeight == 2        \* page heights 0..MaxHeight
MaxItems == 1         \* matching items 0..MaxItems

MAX_STALLS == 3

Heights == 0..MaxHeight
Items == 0..MaxItems

NoMarkup == <<>>

(***************************************************************************)
(* Part 1: the acquisition loop                                            *)
(***************************************************************************)

Larger(a, b) == IF a > b THEN a ELSE b

\* A probe call raises when the session is gone, or when this one query fails.
ProbeFails(fail) == probe = "gone" \/ fail

\* BrowserController.count_ad_elements: the count, or 0 when find_elements raises.
count_ad_elements(fail) == IF ProbeFails(fail) THEN 0 ELSE page_items

iterVars == <<scroll_count, last_height, stall_count, new_height, element_count,
              content_loaded, last_visible, prev_sample>>

pageVars == <<page_height, page_items>>

endVars == <<source_calls, result, outcome>>

\* An exception raised inside the try block of the run: the matching except
\* clause prints and control continues after the try statement.
Raise(kind) ==
    /\ handled' = kind
    /\ pc' = "finish"

AcqInit ==
    /\ variant \in {"basic", "optimized"}
    /\ pc = "start"
    /\ stop_scrolling = FALSE
    /\ listener = "none"
    /\ scroll_count = 0
    /\ last_height = 0
    /\ stall_count = 0
    /\ new_height = 0
    /\ element_count = 0
    /\ content_loaded = FALSE
    /\ last_visible = {}
    /\ page_height \in Heights
    /\ page_items \in Items
    /\ probe = "ok"
    /\ handled = "none"
    /\ source_calls = <<>>
    /\ result = NoMarkup
    /\ outcome = "running"
    /\ prev_sample = <<>>
    /\ max_sample = 0

\* The counters are initialised and the listener thread is started.
StartRun ==
    /\ pc = "start"
    /\ listener' = "waiting"
    /\ pc' = IF variant = "basic" THEN "prologue" ELSE "while"
    /\ UNCHANGED <<variant, stop_scrolling, iterVars, pageVars, probe, handled, endVars>>
    /\ UNCHANGED <<max_sample, exVars, fnVars, laterVars>>

\* check_for_stop: input() returns and the flag is set.
ListenerStop ==
    /\ listener = "waiting"
    /\ stop_scrolling' = TRUE
    /\ listener' = "finished"
    /\ UNCHANGED <<variant, pc, iterVars, pageVars, probe, handled, endVars>>
    /\ UNCHANGED <<max_sample, exVars, fnVars, laterVars>>

\* check_for_stop: input() raises (end of input), the bare except passes.
ListenerEOF ==
    /\ listener = "waiting"
    /\ listener' = "finished"
    /\ UNCHANGED <<variant, pc, stop_scrolling, iterVars, pageVars, probe, handled, endVars>>
    /\ UNCHANGED <<max_sample, exVars, fnVars, laterVars>>

\* The browser window is closed / the automated session dies.
SessionLost ==
    /\ probe = "ok"
    /\ pc \notin {"start", "done"}
    /\ probe' = "gone"
    /\ UNCHANGED <<variant, pc, stop_scrolling, listener, iterVars, pageVars, handled, endVars>>
    /\ UNCHANGED <<max_sample, exVars, fnVars, laterVars>>

TryPcs == {"prologue", "while", "scroll", "sample", "judge", "escalate", "indicator",
           "loadmore", "simulate", "resample",
           "stallcheck", "o_adaptive", "o_viewport", "o_stall"}

\* Ctrl+C in the main thread while it is inside the try block.
Interrupt ==
    /\ pc \in TryPcs
    /\ Raise("KeyboardInterrupt")
    /\ UNCHANGED <<variant, stop_scrolling, listener, iterVars, pageVars, probe, endVars>>
    /\ UNCHANGED <<max_sample, exVars, fnVars, laterVars>>

\* sb.sleep(2); initial_count = self.count_ad_elements()
Prologue ==
    /\ pc = "prologue"
    /\ pc' = "while"
    /\ UNCHANGED <<variant, stop_scrolling, listener, iterVars, pageVars, probe, handled, endVars>>
    /\ UNCHANGED <<max_sample, exVars, fnVars, laterVars>>

\* while not stop_scrolling: scroll_count += 1
WhileTest ==
    /\ pc = "while"
    /\ IF stop_scrolling
         THEN /\ pc' = "finish"
              /\ UNCHANGED scroll_count
         ELSE /\ scroll_count < MaxScrolls
              /\ scroll_count' = scroll_count + 1
              /\ pc' = IF variant = "basic" THEN "scroll" ELSE "o_adaptive"
    /\ UNCHANGED <<variant, stop_scrolling, listener, last_height, stall_count, new_height,
                   element_count, content_loaded, last_visible, prev_sample,
                   pageVars, probe, handled, endVars>>
    /\ UNCHANGED <<max_sample, exVars, fnVars, laterVars>>

\* The scroll cycle: scrollTo, sb.scroll_to_bottom() (its failure is passed),
\* position and height reads, incremental scrollBy, final scrollTo, waits.
\* The page may load or drop content meanwhile.
ScrollCycle ==
    /\ pc = "scroll"
    /\ \E fail \in BOOLEAN, h \in Heights, n \in Items :
         IF ProbeFails(fail)
           THEN /\ Raise("Exception")
                /\ UNCHANGED pageVars
           ELSE /\ page_height' = h
                /\ page_items' = n
                /\ pc' = "sample"
                /\ UNCHANGED handled
    /\ UNCHANGED <<variant, stop_scrolling, listener, iterVars, probe, endVars>>
    /\ UNCHANGED <<max_sample, exVars, fnVars, laterVars>>

\* element_count = self.count_ad_elements(); new_height = execute_script(scrollHeight)
Sample ==
    /\ pc = "sample"
    /\ \E cfail \in BOOLEAN, fail \in BOOLEAN :
         /\ element_count' = count_ad_elements(cfail)
         /\ IF ProbeFails(fail)
              THEN /\ Raise("Exception")
                   /\ UNCHANGED <<new_height, max_sample>>
              ELSE /\ new_height' = page_height
                   /\ max_sample' = Larger(max_sample, page_height)
                   /\ pc' = "judge"
                   /\ UNCHANGED handled
    /\ UNCHANGED <<variant, stop_scrolling, listener, scroll_count, last_height, stall_count,
                   content_loaded, last_visible, prev_sample, pageVars, probe,
                   endVars>>
    /\ UNCHANGED <<exVars, fnVars, laterVars>>

JudgeAlwaysEscalate ==
    /\ pc = "judge"
    /\ IF new_height > last_height
         THEN /\ last_height' = new_height
              /\ stall_count' = 0
              /\ pc' = "stallcheck"
         ELSE /\ stall_count' = stall_count + 1
              /\ pc' = "escalate"
              /\ UNCHANGED last_height
    /\ UNCHANGED <<variant, stop_scrolling, listener, scroll_count, new_height, element_count,
                   content_loaded, last_visible, prev_sample, pageVars, probe,
                   handled, endVars>>
    /\ UNCHANGED <<max_sample, exVars, fnVars, laterVars>>

JudgeGE ==
    /\ pc = "judge"
    /\ IF new_height >= last_height
         THEN /\ last_height' = new_height
              /\ stall_count' = 0
              /\ pc' = "stallcheck"
         ELSE /\ stall_count' = stall_count + 1
              /\ pc' = IF stall_count + 1 < MAX_STALLS THEN "escalate" ELSE "stallcheck"
              /\ UNCHANGED last_height
    /\ UNCHANGED <<variant, stop_scrolling, listener, scroll_count, new_height, element_count,
                   content_loaded, last_visible, prev_sample, pageVars, probe,
                   handled, endVars>>
    /\ UNCHANGED <<max_sample, exVars, fnVars, laterVars>>

JudgeByEitherMeasure ==
    /\ pc = "judge"
    /\ IF \/ new_height > last_height
          \/ (prev_sample /= <<>> /\ element_count > prev_sample[2])
         THEN /\ last_height' = new_height
              /\ stall_count' = 0
              /\ pc' = "stallcheck"
         ELSE /\ stall_count' = stall_count + 1
              /\ pc' = IF stall_count + 1 < MAX_STALLS THEN "escalate" ELSE "stallcheck"
              /\ UNCHANGED last_height
    /\ UNCHANGED <<variant, stop_scrolling, listener, scroll_count, new_height, element_count,
                   content_loaded, last_visible, prev_sample, pageVars, probe,
                   handled, endVars>>
    /\ UNCHANGED <<max_sample, exVars, fnVars, laterVars>>

\* if new_height > last_height: ... else: stall_count += 1; if stall_count < MAX_STALLS:
Judge ==
    /\ pc = "judge"
    /\ IF new_height > last_height
         THEN /\ last_height' = new_height
              /\ stall_count' = 0
              /\ pc' = "stallcheck"
         ELSE /\ stall_count' = stall_count + 1
              /\ pc' = IF stall_count + 1 < MAX_STALLS THEN "escalate" ELSE "stallcheck"
              /\ UNCHANGED last_height
    /\ UNCHANGED <<variant, stop_scrolling, listener, scroll_count, new_height, element_count,
                   content_loaded, last_visible, prev_sample, pageVars, probe,
                   handled, endVars>>
    /\ UNCHANGED <<max_sample, exVars, fnVars, laterVars>>

EscalateUnlessStopped ==
    /\ pc = "escalate"
    /\ IF stop_scrolling
         THEN /\ pc' = "finish"
              /\ UNCHANGED <<pageVars, handled>>
         ELSE \E fail \in BOOLEAN, h \in Heights, n \in Items :
                IF ProbeFails(fail)
                  THEN /\ Raise("Exception")
                       /\ UNCHANGED pageVars
                  ELSE /\ page_height' = h
                       /\ page_items' = n
                       /\ pc' = "indicator"
                       /\ UNCHANGED handled
    /\ UNCHANGED <<variant, stop_scrolling, listener, iterVars, probe, endVars>>
    /\ UNCHANGED <<max_sample, exVars, fnVars, laterVars>>

\* The alternative loading methods begin: scrollBy(-500), scrollTo, waits.
Escalate ==
    /\ pc = "escalate"
    /\ \E fail \in BOOLEAN, h \in Heights, n \in Items :
         IF ProbeFails(fail)
           THEN /\ Raise("Exception")
                /\ UNCHANGED pageVars
           ELSE /\ page_height' = h
                /\ page_items' = n
                /\ pc' = "indicator"
                /\ UNCHANGED handled
    /\ UNCHANGED <<variant, stop_scrolling, listener, iterVars, probe, endVars>>
    /\ UNCHANGED <<max_sample, exVars, fnVars, laterVars>>

\* ---- BrowserController.try_load_more_content ----

LOADING_INDICATOR == "div[role='progressbar']"

load_more_selectors ==
    <<"[data-testid='more-items-button']", "button:contains('See more')",
      "button:contains('Load more')", "[aria-label*='more']">>

\* One call of the browser: sb.is_element_present(selector) with its answer, or
\* sb.click(selector); raised when the call raised instead of returning.
BrowserCall(op, selector, answer, raised) ==
    [op |-> op, selector |-> selector, answer |-> answer, raised |-> raised]

\* The browser calls the function can make at most: the indicator test, one test
\* per selector and one click.
FailPoints == 0..(Len(load_more_selectors) + 2)

RECURSIVE WalkSelectors(_, _, _, _)
WalkSelectorsNoBreak(i, present, fail_at, n) ==
    IF i > Len(load_more_selectors) THEN <<>>
    ELSE LET selector == load_more_selectors[i]
         IN IF fail_at = n + 1
              THEN <<BrowserCall("is_element_present", selector, FALSE, TRUE)>>
              ELSE IF selector \in present
                THEN IF fail_at = n + 2
                       THEN <<BrowserCall("is_element_present", selector, TRUE, FALSE),
                              BrowserCall("click", selector, FALSE, TRUE)>>
                       ELSE <<BrowserCall("is_element_present", selector, TRUE, FALSE),
                              BrowserCall("click", selector, FALSE, FALSE)>>
                            \o WalkSelectors(i + 1, present, fail_at, n + 2)
                ELSE <<BrowserCall("is_element_present", selector, FALSE, FALSE)>>
                     \o WalkSelectors(i + 1, present, fail_at, n + 1)

\* for selector in load_more_selectors: if present: click, sleep, break.
\* n browser calls were made before; the call number fail_at raises.
WalkSelectors(i, present, fail_at, n) ==
    IF i > Len(load_more_selectors) THEN <<>>
    ELSE LET selector == load_more_selectors[i]
         IN IF fail_at = n + 1
              THEN <<BrowserCall("is_element_present", selector, FALSE, TRUE)>>
              ELSE IF selector \in present
                THEN <<BrowserCall("is_element_present", selector, TRUE, FALSE),
                       BrowserCall("click", selector, FALSE, fail_at = n + 2)>>
                ELSE <<BrowserCall("is_element_present", selector, FALSE, FALSE)>>
                     \o WalkSelectors(i + 1, present, fail_at, n + 1)

\* try_load_more_content returns None in every case: what it does is the browser
\* calls it makes.  present: the selectors that match on the page; an exception of
\* a call is caught by the function's except clause, which ends the function.
try_load_more_content(present, fail_at) ==
    IF fail_at = 1
      THEN <<BrowserCall("is_element_present", LOADING_INDICATOR, FALSE, TRUE)>>
      ELSE <<BrowserCall("is_element_present", LOADING_INDICATOR,
                         LOADING_INDICATOR \in present, FALSE)>>
           \o WalkSelectors(1, present, fail_at, 1)

PageSelectors == {load_more_selectors[i] : i \in DOMAIN load_more_selectors}
                   \cup {LOADING_INDICATOR}

\* self.try_load_more_content(), its first statement: the loading indicator test and
\* the wait.  When the test raises, the except clause of the function prints the
\* error and the function returns.
LoadingIndicator ==
    /\ pc = "indicator"
    /\ \E fail \in BOOLEAN :
         pc' = IF ProbeFails(fail) THEN "simulate" ELSE "loadmore"
    /\ UNCHANGED <<variant, stop_scrolling, listener, iterVars, pageVars, probe, handled,
                   endVars>>
    /\ UNCHANGED <<max_sample, exVars, fnVars, laterVars>>

\* self.try_load_more_content(), the walk over load_more_selectors (WalkSelectors):
\* an exception of a browser call is caught by the function's except clause, so the
\* function returns to the iteration in every case.
LoadMore ==
    /\ pc = "loadmore"
    /\ pc' = "simulate"
    /\ UNCHANGED <<variant, stop_scrolling, listener, iterVars, pageVars, probe, handled,
                   endVars>>
    /\ UNCHANGED <<max_sample, exVars, fnVars, laterVars>>

\* self.simulate_user_interaction(): one execute_script call, outside any try of
\* the iteration; time.sleep(3).
Simulate ==
    /\ pc = "simulate"
    /\ \E fail \in BOOLEAN :
         IF ProbeFails(fail)
           THEN Raise("Exception")
           ELSE /\ pc' = "resample"
                /\ UNCHANGED handled
    /\ UNCHANGED <<variant, stop_scrolling, listener, iterVars, pageVars, probe, endVars>>
    /\ UNCHANGED <<max_sample, exVars, fnVars, laterVars>>

ResampleTakesFinalHeight ==
    /\ pc = "resample"
    /\ \E fail \in BOOLEAN :
         IF ProbeFails(fail)
           THEN /\ Raise("Exception")
                /\ UNCHANGED <<last_height, stall_count, max_sample>>
           ELSE /\ max_sample' = Larger(max_sample, page_height)
                /\ last_height' = page_height
                /\ stall_count' = IF page_height > last_height THEN 0 ELSE stall_count
                /\ pc' = "stallcheck"
                /\ UNCHANGED handled
    /\ UNCHANGED <<variant, stop_scrolling, listener, scroll_count, new_height, element_count,
                   content_loaded, last_visible, prev_sample, pageVars, probe, endVars>>
    /\ UNCHANGED <<exVars, fnVars, laterVars>>

\* final_height = execute_script(scrollHeight); final_element_count = count_ad_elements()
\* if final_height > last_height: last_height = final_height; stall_count = 0
Resample ==
    /\ pc = "resample"
    /\ \E fail \in BOOLEAN :
         IF ProbeFails(fail)
           THEN /\ Raise("Exception")
                /\ UNCHANGED <<last_height, stall_count, max_sample>>
           ELSE /\ max_sample' = Larger(max_sample, page_height)
                /\ IF page_height > last_height
                     THEN /\ last_height' = page_height
                          /\ stall_count' = 0
                     ELSE UNCHANGED <<last_height, stall_count>>
                /\ pc' = "stallcheck"
                /\ UNCHANGED handled
    /\ UNCHANGED <<variant, stop_scrolling, listener, scroll_count, new_height, element_count,
                   content_loaded, last_visible, prev_sample, pageVars, probe, endVars>>
    /\ UNCHANGED <<exVars, fnVars, laterVars>>

StallCheckNoReset ==
    /\ pc = "stallcheck"
    /\ prev_sample' = <<new_height, element_count>>
    /\ pc' = "while"
    /\ UNCHANGED <<variant, stop_scrolling, listener, scroll_count, last_height, stall_count,
                   new_height, element_count, content_loaded, last_visible,
                   pageVars, probe, handled, endVars>>
    /\ UNCHANGED <<max_sample, exVars, fnVars, laterVars>>

StallCheckAutoStop ==
    /\ pc = "stallcheck"
    /\ prev_sample' = <<new_height, element_count>>
    /\ pc' = IF stall_count >= MAX_STALLS THEN "finish" ELSE "while"
    /\ UNCHANGED <<variant, stop_scrolling, listener, scroll_count, last_height, stall_count,
                   new_height, element_count, content_loaded, last_visible,
                   pageVars, probe, handled, endVars>>
    /\ UNCHANGED <<max_sample, exVars, fnVars, laterVars>>

StallCheckWithSnapshot ==
    /\ pc = "stallcheck"
    /\ stall_count' = IF stall_count >= MAX_STALLS THEN 0 ELSE stall_count
    /\ prev_sample' = <<new_height, element_count>>
    /\ source_calls' = Append(source_calls, <<page_height, page_items>>)
    /\ pc' = "while"
    /\ UNCHANGED <<variant, stop_scrolling, listener, scroll_count, last_height,
                   new_height, element_count, content_loaded, last_visible,
                   pageVars, probe, handled, result, outcome>>
    /\ UNCHANGED <<max_sample, exVars, fnVars, laterVars>>

\* if stall_count >= MAX_STALLS: stall_count = 0; sleep.  End of the iteration.
StallCheck ==
    /\ pc = "stallcheck"
    /\ stall_count' = IF stall_count >= MAX_STALLS THEN 0 ELSE stall_count
    /\ prev_sample' = <<new_height, element_count>>
    /\ pc' = "while"
    /\ UNCHANGED <<variant, stop_scrolling, listener, scroll_count, last_height,
                   new_height, element_count, content_loaded, last_visible,
                   pageVars, probe, handled, endVars>>
    /\ UNCHANGED <<max_sample, exVars, fnVars, laterVars>>

\* ---- OptimizedBrowserController.optimized_scroll_to_bottom ----

\* memory check; AdaptiveScrollController.adaptive_scroll_and_wait: the count before,
\* scrollTo (unguarded), the wait, the count after; True iff the count went up.
OptAdaptive ==
    /\ pc = "o_adaptive"
    /\ \E c1 \in BOOLEAN, fail \in BOOLEAN, c2 \in BOOLEAN, h \in Heights, n \in Items :
         IF ProbeFails(fail)
           THEN /\ Raise("Exception")
                /\ UNCHANGED <<pageVars, content_loaded>>
           ELSE /\ page_height' = h
                /\ page_items' = n
                /\ content_loaded' =
                     ((IF probe = "gone" \/ c2 THEN 0 ELSE n) > count_ad_elements(c1))
                /\ pc' = "o_viewport"
                /\ UNCHANGED handled
    /\ UNCHANGED <<variant, stop_scrolling, listener, scroll_count, last_height, stall_count,
                   new_height, element_count, last_visible, prev_sample, probe,
                   endVars>>
    /\ UNCHANGED <<max_sample, exVars, fnVars, laterVars>>

\* if not content_loaded: scroll_by_viewport (guarded), sleep,
\* content_loaded = visibility_detector.check_new_content_loaded (guarded: set() on error)
OptViewport ==
    /\ pc = "o_viewport"
    /\ IF content_loaded
         THEN UNCHANGED <<content_loaded, last_visible>>
         ELSE \E fail \in BOOLEAN, vis \in SUBSET (1..page_items) :
                LET current_visible == IF ProbeFails(fail) THEN {} ELSE vis
                IN /\ content_loaded' = (current_visible \ last_visible /= {})
                   /\ last_visible' = current_visible
    /\ pc' = "o_stall"
    /\ UNCHANGED <<variant, stop_scrolling, listener, scroll_count, last_height, stall_count,
                   new_height, element_count, prev_sample, pageVars, probe,
                   handled, endVars>>
    /\ UNCHANGED <<max_sample, exVars, fnVars, laterVars>>

\* stall counter update, progress report, reset at MAX_STALLS.  End of the iteration.
OptStall ==
    /\ pc = "o_stall"
    /\ LET s == IF content_loaded THEN 0 ELSE stall_count + 1
       IN stall_count' = IF s >= MAX_STALLS THEN 0 ELSE s
    /\ pc' = "while"
    /\ UNCHANGED <<variant, stop_scrolling, listener, scroll_count, last_height,
                   new_height, element_count, content_loaded, last_visible,
                   prev_sample, pageVars, probe, handled, endVars>>
    /\ UNCHANGED <<max_sample, exVars, fnVars, laterVars>>

FinishSwallow ==
    /\ pc = "finish"
    /\ \E fail \in BOOLEAN :
         IF ProbeFails(fail)
           THEN /\ source_calls' = Append(source_calls, NoMarkup)
                /\ outcome' = "returned"
                /\ UNCHANGED result
           ELSE /\ source_calls' = Append(source_calls, <<page_height, page_items>>)
                /\ result' = <<page_height, page_items>>
                /\ outcome' = "returned"
    /\ pc' = "done"
    /\ UNCHANGED <<variant, stop_scrolling, listener, iterVars, pageVars, probe, handled>>
    /\ UNCHANGED <<max_sample, exVars, fnVars, laterVars>>

\* After the try statement: the summary print and return self.sb.get_page_source().
\* The call is outside the try block: when it raises, the exception reaches the caller.
Finish ==
    /\ pc = "finish"
    /\ \E fail \in BOOLEAN :
         IF ProbeFails(fail)
           THEN /\ source_calls' = Append(source_calls, NoMarkup)
                /\ outcome' = "raised"
                /\ UNCHANGED result
           ELSE /\ source_calls' = Append(source_calls, <<page_height, page_items>>)
                /\ result' = <<page_height, page_items>>
                /\ outcome' = "returned"
    /\ pc' = "done"
    /\ UNCHANGED <<variant, stop_scrolling, listener, iterVars, pageVars, probe, handled>>
    /\ UNCHANGED <<max_sample, exVars, fnVars, laterVars>>

(***************************************************************************)
(* Part 2: record extraction                                               *)
(*                                                                         *)
(* A text is the sequence of its whitespace-separated tokens ("" is <<>>); *)
(* the fixed phrases the regular expressions look for are single tokens.   *)
(* A Python str or int value is a record [k, s, n] so that a field may     *)
(* hold either.                                                            *)
(***************************************************************************)
MaxAds == 3           \* item containers per snapshot
MaxBatch == 3         \* batch sizes 1..MaxBatch

PyStr(s) == [k |-> "str", s |-> s, n |-> 0]
PyInt(n) == [k |-> "int", s |-> <<>>, n |-> n]
EmptyStr == PyStr(<<>>)

\* Python truthiness of a str or int value.
Truthy(v) == IF v.k = "int" THEN v.n /= 0 ELSE v.s /= <<>>

\* int(token) for the digit strings that occur in the texts of the model.
NumVal ==
    ("1" :> 1) @@ ("2" :> 2) @@ ("3" :> 3) @@ ("5" :> 5) @@ ("28" :> 28) @@
    ("30" :> 30) @@ ("31" :> 31) @@ ("45" :> 45) @@ ("1969" :> 1969) @@
    ("1970" :> 1970) @@ ("2024" :> 2024) @@ ("2025" :> 2025)

\* Tokens matching \d+.
IsDigits(tok) == tok \in DOMAIN NumVal \cup {"1665798290789134"}

\* Tokens that hold a character outside \w.  "<middot>" is U+00B7, the separator
\* of the page's text; "<A-circumflex><middot>" is the two characters U+00C2 U+00B7
\* that the pattern of date_utils.py line 106 holds.
NonWordTokens == {"<middot>", "<A-circumflex><middot>", "Library ID:", "Started running on", "Total active time"}

IsWord(tok) == tok \notin NonWordTokens

Uppers == "ABCDEFGHIJKLMNOPQRSTUVWXYZ"
Lowers == "abcdefghijklmnopqrstuvwxyz"

\* The lower-case letter of an upper-case letter, any other character unchanged.
LowerChar(c) ==
    CASE c = "A" -> "a" [] c = "B" -> "b" [] c = "C" -> "c" [] c = "D" -> "d"
      [] c = "E" -> "e" [] c = "F" -> "f" [] c = "G" -> "g" [] c = "H" -> "h"
      [] c = "I" -> "i" [] c = "J" -> "j" [] c = "K" -> "k" [] c = "L" -> "l"
      [] c = "M" -> "m" [] c = "N" -> "n" [] c = "O" -> "o" [] c = "P" -> "p"
      [] c = "Q" -> "q" [] c = "R" -> "r" [] c = "S" -> "s" [] c = "T" -> "t"
      [] c = "U" -> "u" [] c = "V" -> "v" [] c = "W" -> "w" [] c = "X" -> "x"
      [] c = "Y" -> "y" [] c = "Z" -> "z"
      [] OTHER -> c

RECURSIVE Lower(_)
Lower(s) ==
    IF s = "" THEN ""
    ELSE LowerChar(Head(s))
         \o Lower(Tail(s))

SetMin(S) == CHOOSE x \in S : \A y \in S : x <= y

\* Index of the first position satisfying a search, 0 when there is none.
First(S) == IF S = {} THEN 0 ELSE SetMin(S)

DigitChar == <<"0", "1", "2", "3", "4", "5", "6", "7", "8", "9">>

\* str(n) for n >= 0.
RECURSIVE ToStr(_)
ToStr(n) == IF n < 10 THEN DigitChar[n + 1]
            ELSE ToStr(n \div 10) \o DigitChar[(n % 10) + 1]

FullMonths == <<"January", "February", "March", "April", "May", "June", "July",
                "August", "September", "October", "November", "December">>

AbbrMonths == <<"Jan", "Feb", "Mar", "Apr", "May", "Jun", "Jul", "Aug", "Sep",
                "Oct", "Nov", "Dec">>

MonthIndex(names, tok) == First({i \in 1..12 : names[i] = tok})

IsLeap(y) == (y % 4 = 0 /\ y % 100 /= 0) \/ y % 400 = 0

DaysInMonth(m, y) ==
    IF m = 2 THEN (IF IsLeap(y) THEN 29 ELSE 28)
    ELSE IF m \in {4, 6, 9, 11} THEN 30 ELSE 31

\* Days from 1970-01-01 to the civil date y-m-d (proleptic Gregorian calendar).
DaysFromCivil(y, m, d) ==
    LET yy == IF m <= 2 THEN y - 1 ELSE y
        era == yy \div 400
        yoe == yy - era * 400
        mp == IF m > 2 THEN m - 3 ELSE m + 9
        doy == ((153 * mp + 2) \div 5) + d - 1
        doe == yoe * 365 + (yoe \div 4) - (yoe \div 100) + doy
    IN era * 146097 + doe - 719468

\* datetime.strptime(date, '%d <month> %Y') then int(.timestamp()), the local time
\* zone taken as UTC; -1 stands for ValueError.  date is <<day, month, year>>.
strptime_timestamp(date, names) ==
    LET d == NumVal[date[1]]
        m == MonthIndex(names, date[2])
        y == NumVal[date[3]]
    IN IF m = 0 \/ y < 1 \/ d < 1 \/ d > DaysInMonth(m, y) THEN -1
       ELSE DaysFromCivil(y, m, d) * 86400

\* One unit of parse_duration_to_seconds: re.search(r'(\d+)\s*(?:<unit names>)').
UnitQuantity(d, units) ==
    LET i == First({j \in 1..(Len(d) - 1) : IsDigits(d[j]) /\ d[j + 1] \in units})
    IN IF i = 0 THEN 0 ELSE NumVal[d[i]]

\* parse_duration_to_seconds with the hours counted as minutes.
parse_duration_hours_as_minutes(duration_str) ==
    LET d == [i \in 1..Len(duration_str) |-> Lower(duration_str[i])]
    IN UnitQuantity(d, {"day", "days"}) * 24 * 3600
       + UnitQuantity(d, {"hr", "hrs", "hour", "hours"}) * 60
       + UnitQuantity(d, {"min", "mins", "minute", "minutes"}) * 60
       + UnitQuantity(d, {"sec", "secs", "second", "seconds"})

parse_duration_to_seconds(duration_str) ==
    LET d == [i \in 1..Len(duration_str) |-> Lower(duration_str[i])]
    IN UnitQuantity(d, {"day", "days"}) * 24 * 3600
       + UnitQuantity(d, {"hr", "hrs", "hour", "hours"}) * 3600
       + UnitQuantity(d, {"min", "mins", "minute", "minutes"}) * 60
       + UnitQuantity(d, {"sec", "secs", "second", "seconds"})

\* One bucket of format_duration_from_seconds: <<tokens emitted, remainder>>.
\* A bucket that leaves the remainder as it is.
BucketKeepsRemainder(remaining, size, one, many, reduce) ==
    LET q == remaining \div size
    IN IF q >= 1
         THEN <<(<<ToStr(q), IF q = 1 THEN one ELSE many>>), remaining>>
         ELSE <<(<<>>), remaining>>

Bucket(remaining, size, one, many, reduce) ==
    LET q == remaining \div size
    IN IF q >= 1
         THEN <<(<<ToStr(q), IF q = 1 THEN one ELSE many>>),
                IF reduce THEN remaining % size ELSE remaining>>
         ELSE <<(<<>>), remaining>>

format_duration_from_seconds(seconds) ==
    LET years == Bucket(seconds, 31557600, "year", "years", TRUE)
        months == Bucket(years[2], 2630016, "month", "months", TRUE)
        days == Bucket(months[2], 86400, "day", "days", TRUE)
        hours == Bucket(days[2], 3600, "hr", "hrs", TRUE)
        minutes == Bucket(hours[2], 60, "min", "mins", FALSE)
        parts == years[1] \o months[1] \o days[1] \o hours[1] \o minutes[1]
    IN IF parts /= <<>> THEN parts ELSE <<"less than 1 min">>

\* re.search(r'Started running on\s+(\d{1,2}\s+\w+\s+\d{4})', start_text):
\* the index of the phrase, 0 when there is no match.
StartedMatch(text) ==
    First({i \in 1..(Len(text) - 3) :
             /\ text[i] = "Started running on"
             /\ IsDigits(text[i + 1]) /\ Len(text[i + 1]) <= 2
             /\ IsWord(text[i + 2])
             /\ IsDigits(text[i + 3]) /\ Len(text[i + 3]) = 4})

\* re.search(r'Total active time\s+(.+?)(?:\s*$|<U+00C2><U+00B7>)', start_text): group 1, the text
\* after the phrase up to the first "<A-circumflex><middot>" or the end; <<>> when there is no match.
DurationMatch(text) ==
    LET i == First({j \in 1..(Len(text) - 1) : text[j] = "Total active time"})
        stop == First({j \in (i + 2)..Len(text) : text[j] = "<A-circumflex><middot>"})
    IN IF i = 0 THEN <<>>
       ELSE SubSeq(text, i + 1, IF stop = 0 THEN Len(text) ELSE stop - 1)

EmptyTimes(start_text) ==
    [start_date |-> EmptyStr, start_date_timestamp |-> EmptyStr,
     activity_duration |-> EmptyStr, activity_duration_timestamp |-> EmptyStr,
     start_at |-> PyStr(start_text)]

\* extract_ad_times without the second attempt, the one with '%d %b %Y'.
extract_ad_times_full_names_only(start_text, now) ==
    IF start_text = <<>> THEN EmptyTimes(start_text)
    ELSE
      LET i == StartedMatch(start_text)
          date == SubSeq(start_text, i + 1, i + 3)
          full == strptime_timestamp(date, FullMonths)
          abbr == -1
          start_date == IF i = 0 THEN EmptyStr ELSE PyStr(date)
          start_ts == IF i = 0 THEN EmptyStr
                      ELSE IF full /= -1 THEN PyInt(full)
                      ELSE IF abbr /= -1 THEN PyInt(abbr)
                      ELSE EmptyStr
          duration_str == DurationMatch(start_text)
          calculated == now - start_ts.n
      IN [start_date |-> start_date,
          start_date_timestamp |-> start_ts,
          activity_duration |->
              IF duration_str /= <<>> THEN PyStr(duration_str)
              ELSE IF Truthy(start_ts)
                THEN PyStr(<<"Calculated:">> \o format_duration_from_seconds(calculated))
              ELSE EmptyStr,
          activity_duration_timestamp |->
              IF duration_str /= <<>> THEN PyInt(parse_duration_to_seconds(duration_str))
              ELSE IF Truthy(start_ts) THEN PyInt(calculated)
              ELSE EmptyStr,
          start_at |-> PyStr(start_text)]

extract_ad_times(start_text, now) ==
    IF start_text = <<>> THEN EmptyTimes(start_text)
    ELSE
      LET i == StartedMatch(start_text)
          date == SubSeq(start_text, i + 1, i + 3)
          full == strptime_timestamp(date, FullMonths)
          abbr == strptime_timestamp(date, AbbrMonths)
          start_date == IF i = 0 THEN EmptyStr ELSE PyStr(date)
          start_ts == IF i = 0 THEN EmptyStr
                      ELSE IF full /= -1 THEN PyInt(full)
                      ELSE IF abbr /= -1 THEN PyInt(abbr)
                      ELSE EmptyStr
          duration_str == DurationMatch(start_text)
          calculated == now - start_ts.n
      IN [start_date |-> start_date,
          start_date_timestamp |-> start_ts,
          activity_duration |->
              IF duration_str /= <<>> THEN PyStr(duration_str)
              ELSE IF Truthy(start_ts)
                THEN PyStr(<<"Calculated:">> \o format_duration_from_seconds(calculated))
              ELSE EmptyStr,
          activity_duration_timestamp |->
              IF duration_str /= <<>> THEN PyInt(parse_duration_to_seconds(duration_str))
              ELSE IF Truthy(start_ts) THEN PyInt(calculated)
              ELSE EmptyStr,
          start_at |-> PyStr(start_text)]

\* An except clause that never matches.
HandlesNothing(clause, exc) == FALSE

\* Whether the clause `except <clause>` catches the exception exc.
Handles(clause, exc) == clause = "Exception" \/ clause = exc

\* What datetime.strptime(date, format) raises for a date it cannot read.
StrptimeException(date, names) ==
    IF strptime_timestamp(date, names) = -1 THEN "ValueError" ELSE "none"

\* One call of extract_ad_times with its exception handlers: the handlers of the
\* two strptime attempts (except ValueError) and the handler of the whole body
\* (except Exception), which returns the fallback mapping.  raised tells whether an
\* exception leaves the function.
extract_ad_times_outcome(start_text, now) ==
    LET i == IF start_text = <<>> THEN 0 ELSE StartedMatch(start_text)
        date == SubSeq(start_text, i + 1, i + 3)
        first == IF i = 0 THEN "none" ELSE StrptimeException(date, FullMonths)
        second == IF first = "none" THEN "none"
                  ELSE IF Handles("ValueError", first)
                    THEN StrptimeException(date, AbbrMonths)
                  ELSE first
        body == IF second = "none" THEN "none"
                ELSE IF Handles("ValueError", first) /\ Handles("ValueError", second)
                  THEN "none"
                ELSE second
    IN IF body = "none"
         THEN [raised |-> FALSE, value |-> extract_ad_times(start_text, now)]
       ELSE IF Handles("Exception", body)
         THEN [raised |-> FALSE, value |-> EmptyTimes(start_text)]
       ELSE [raised |-> TRUE, value |-> EmptyTimes(<<>>)]

\* ---- str and urllib.parse, as MediaExtractor uses them ----
\* A URL is a string; the URLs of the model hold no whitespace, no control
\* character, no '&' and no bracketed host.

\* s.find(c, start): the index (from 1) of the first c at or after start, 0 if none.
Find(s, c, start) == First({i \in start..Len(s) : SubSeq(s, i, i) = c})

Contains(s, c) == Find(s, c, 1) /= 0

\* s.rfind(c): the index of the last c, 0 if none.
RFind(s, c) ==
    LET S == {i \in 1..Len(s) : SubSeq(s, i, i) = c}
    IN IF S = {} THEN 0 ELSE CHOOSE i \in S : \A j \in S : j <= i

StartsWith(s, prefix) == Len(s) >= Len(prefix) /\ SubSeq(s, 1, Len(prefix)) = prefix

EndsWith(s, suffix) ==
    Len(s) >= Len(suffix) /\ SubSeq(s, Len(s) - Len(suffix) + 1, Len(s)) = suffix

From(s, i) == SubSeq(s, i, Len(s))

\* s.split(c)
RECURSIVE Split(_, _)
SplitAt(s, c, i) ==
    IF i = 0 THEN <<s>> ELSE <<SubSeq(s, 1, i - 1)>> \o Split(From(s, i + 1), c)

Split(s, c) == SplitAt(s, c, Find(s, c, 1))

\* s.split(c, 1)[0] and, when c is in s, s.split(c, 1)[1] ("" otherwise).
Before(s, c) == IF Contains(s, c) THEN SubSeq(s, 1, Find(s, c, 1) - 1) ELSE s

After(s, c) == IF Contains(s, c) THEN From(s, Find(s, c, 1) + 1) ELSE ""

\* c.join(parts)
RECURSIVE Join(_, _)
Join(parts, c) ==
    IF parts = <<>> THEN ""
    ELSE IF Len(parts) = 1 THEN parts[1]
    ELSE parts[1] \o c \o Join(Tail(parts), c)

scheme_chars == "abcdefghijklmnopqrstuvwxyzABCDEFGHIJKLMNOPQRSTUVWXYZ0123456789+-."

uses_relative ==
    {"", "ftp", "http", "gopher", "nntp", "imap", "wais", "file", "https", "shttp", "mms",
     "prospero", "rtsp", "rtsps", "rtspu", "sftp", "svn", "svn+ssh", "ws", "wss"}

uses_netloc ==
    {"", "ftp", "http", "gopher", "nntp", "telnet", "imap", "wais", "file", "mms", "https",
     "shttp", "snews", "prospero", "rtsp", "rtsps", "rtspu", "rsync", "svn", "svn+ssh",
     "sftp", "nfs", "git", "git+ssh", "ws", "wss"}

uses_params ==
    {"", "ftp", "hdl", "prospero", "http", "imap", "https", "shttp", "rtsp", "rtsps",
     "rtspu", "sip", "sips", "mms", "sftp", "tel"}

IsAlpha(c) == Contains(SubSeq(scheme_chars, 1, 52), c)

\* The characters before the first ':' (at index i) are a scheme.
HasScheme(url, i) ==
    /\ i > 1
    /\ IsAlpha(SubSeq(url, 1, 1))
    /\ \A j \in 1..(i - 1) : Contains(scheme_chars, SubSeq(url, j, j))

\* _splitnetloc(url, 2): the index at which the netloc ends, the first of '/', '?'
\* and '#' after the two slashes.
NetlocEnd(url) ==
    IF {Find(url, c, 3) : c \in {"/", "?", "#"}} = {0} THEN Len(url) + 1
    ELSE SetMin({Find(url, c, 3) : c \in {"/", "?", "#"}} \ {0})

\* urlsplit after the scheme and the netloc: the fragment after the first '#', the
\* query after the first '?' before it; ValueError ("Invalid IPv6 URL") when the
\* netloc holds one bracket without the other.
SplitQueryFragment(scheme, netloc, url) ==
    [scheme |-> scheme, netloc |-> netloc, path |-> Before(Before(url, "#"), "?"),
     query |-> After(Before(url, "#"), "?"), fragment |-> After(url, "#"),
     error |-> Contains(netloc, "[") /= Contains(netloc, "]")]

\* urlsplit after the scheme: the netloc after '//'.
SplitNetloc(scheme, url) ==
    IF StartsWith(url, "//")
      THEN SplitQueryFragment(scheme, SubSeq(url, 3, NetlocEnd(url) - 1),
                              From(url, NetlocEnd(url)))
      ELSE SplitQueryFragment(scheme, "", url)

SplitScheme(url, scheme, i) ==
    IF HasScheme(url, i)
      THEN SplitNetloc(Lower(SubSeq(url, 1, i - 1)), From(url, i + 1))
      ELSE SplitNetloc(scheme, url)

\* urlsplit(url, scheme): the five components, and whether ValueError is raised.
urlsplit(url, scheme) == SplitScheme(url, scheme, Find(url, ":", 1))

\* _splitparams(url): <<url, params>>
SplitParamsAt(url, i) ==
    IF i = 0 THEN <<url, "">> ELSE <<SubSeq(url, 1, i - 1), From(url, i + 1)>>

splitparams(url) ==
    SplitParamsAt(url, Find(url, ";", IF RFind(url, "/") = 0 THEN 1 ELSE RFind(url, "/")))

WithParams(r, p) ==
    [scheme |-> r.scheme, netloc |-> r.netloc, path |-> p[1], params |-> p[2],
     query |-> r.query, fragment |-> r.fragment, error |-> r.error]

AddParams(r) ==
    WithParams(r, IF r.scheme \in uses_params /\ Contains(r.path, ";")
                    THEN splitparams(r.path) ELSE <<r.path, "">>)

\* urlparse(url, scheme): urlsplit, then the params of the last path segment.
urlparse(url, scheme) == AddParams(urlsplit(url, scheme))

\* urlunsplit: the netloc with its slashes, the scheme, the query, the fragment.
AddNetloc(scheme, netloc, url) ==
    IF netloc /= "" \/ (scheme /= "" /\ scheme \in uses_netloc /\ ~StartsWith(url, "//"))
      THEN "//" \o netloc \o (IF url /= "" /\ ~StartsWith(url, "/") THEN "/" ELSE "") \o url
      ELSE url

AddScheme(scheme, url) == IF scheme /= "" THEN scheme \o ":" \o url ELSE url

AddQuery(url, query) == IF query /= "" THEN url \o "?" \o query ELSE url

AddFragment(url, fragment) == IF fragment /= "" THEN url \o "#" \o fragment ELSE url

\* urlunparse((scheme, netloc, url, params, query, fragment))
urlunparse(scheme, netloc, path, params, query, fragment) ==
    AddFragment(
        AddQuery(
            AddScheme(scheme,
                      AddNetloc(scheme, netloc,
                                IF params /= "" THEN path \o ";" \o params ELSE path)),
            query),
        fragment)

\* The loop of urljoin over the path segments: '..' pops, '.' is skipped.
RECURSIVE ResolveSegments(_, _)
ResolveSegments(segments, resolved_path) ==
    IF segments = <<>> THEN resolved_path
    ELSE LET seg == Head(segments)
         IN ResolveSegments(Tail(segments),
                IF seg = ".." THEN (IF resolved_path = <<>> THEN <<>>
                                    ELSE SubSeq(resolved_path, 1, Len(resolved_path) - 1))
                ELSE IF seg = "." THEN resolved_path
                ELSE Append(resolved_path, seg))

\* urljoin raises ValueError when urlparse does, for the base or for the url.
RaisesWithBase(b, url) == b.error \/ urlparse(url, b.scheme).error

urljoin_raises(base, url) ==
    /\ base /= ""
    /\ url /= ""
    /\ RaisesWithBase(urlparse(base, ""), url)

\* base_parts: the segments of the base path without the last one unless it is empty.
BaseParts(parts) ==
    IF parts[Len(parts)] /= "" THEN SubSeq(parts, 1, Len(parts) - 1) ELSE parts

\* segments[1:-1] = filter(None, segments[1:-1])
FilterInner(joined) ==
    IF Len(joined) <= 2 THEN joined
    ELSE <<joined[1]>>
         \o SelectSeq(SubSeq(joined, 2, Len(joined) - 1), LAMBDA seg : seg /= "")
         \o <<joined[Len(joined)]>>

Segments(bpath, path) ==
    IF StartsWith(path, "/") THEN Split(path, "/")
    ELSE FilterInner(BaseParts(Split(bpath, "/")) \o Split(path, "/"))

OrSlash(path) == IF path = "" THEN "/" ELSE path

\* '/'.join(resolved_path) or '/', after a last segment '.' or '..' has appended ''.
JoinResolved(segments, resolved_path) ==
    OrSlash(Join(IF segments[Len(segments)] \in {".", ".."}
                   THEN Append(resolved_path, "") ELSE resolved_path, "/"))

ResolvedPath(segments) == JoinResolved(segments, ResolveSegments(segments, <<>>))

\* urljoin with the base parsed (b) and the url parsed with the base's scheme (u).
JoinParsed(url, b, u) ==
    IF u.scheme /= b.scheme \/ u.scheme \notin uses_relative THEN url
    ELSE IF u.scheme \in uses_netloc /\ u.netloc /= ""
      THEN urlunparse(u.scheme, u.netloc, u.path, u.params, u.query, u.fragment)
    ELSE IF u.path = "" /\ u.params = ""
      THEN urlunparse(u.scheme, IF u.scheme \in uses_netloc THEN b.netloc ELSE u.netloc,
                      b.path, b.params, IF u.query = "" THEN b.query ELSE u.query,
                      u.fragment)
    ELSE urlunparse(u.scheme, IF u.scheme \in uses_netloc THEN b.netloc ELSE u.netloc,
                    ResolvedPath(Segments(b.path, u.path)), u.params, u.query, u.fragment)

JoinBase(url, b) == JoinParsed(url, b, urlparse(url, b.scheme))

urljoin(base, url) ==
    IF base = "" THEN url
    ELSE IF url = "" THEN base
    ELSE JoinBase(url, urlparse(base, ""))

\* ---- MediaExtractor (scrapers/media_extractor.py) ----

IMAGE_EXTENSIONS == {".jpg", ".jpeg", ".png", ".gif", ".webp", ".svg", ".bmp", ".ico", ".tiff"}
VIDEO_EXTENSIONS == {".mp4", ".avi", ".mov", ".wmv", ".flv", ".webm", ".mkv", ".m4v"}
AUDIO_EXTENSIONS == {".mp3", ".wav", ".ogg", ".m4a", ".aac", ".flac", ".wma"}

\* base_url = None: no base
NoBase == ""

\* The path of a parsed URL ends in one of the extensions; False when urlparse raised.
PathEndsWith(parsed, extensions) ==
    ~parsed.error /\ \E ext \in extensions : EndsWith(parsed.path, ext)

\* is_media_url without the conversion to lower case.
is_media_url_as_written(url, extensions) == PathEndsWith(urlparse(url, ""), extensions)

\* urlparse(url.lower()).path ends in one of the extensions; False when urlparse raises.
is_media_url(url, extensions) == PathEndsWith(urlparse(Lower(url), ""), extensions)

\* resolve_url raises exactly when urljoin is called and raises.
resolve_url_raises(url, base_url) ==
    /\ base_url /= ""
    /\ url /= ""
    /\ ~(StartsWith(url, "http://") \/ StartsWith(url, "https://") \/ StartsWith(url, "//"))
    /\ urljoin_raises(base_url, url)

\* resolve_url without the test for an already absolute url.
resolve_url_join_always(url, base_url) ==
    IF base_url /= "" /\ url /= "" THEN urljoin(base_url, url) ELSE url

resolve_url(url, base_url) ==
    IF /\ base_url /= ""
       /\ url /= ""
       /\ ~(StartsWith(url, "http://") \/ StartsWith(url, "https://") \/ StartsWith(url, "//"))
      THEN urljoin(base_url, url)
      ELSE url

NonEmpty(url) == url /= ""

RECURSIVE Flatten(_)
Flatten(ss) == IF ss = <<>> THEN <<>> ELSE Head(ss) \o Flatten(Tail(ss))

\* resolve_url applied to each URL of a list.
ResolveAll(urls, base_url) == [i \in 1..Len(urls) |-> resolve_url(urls[i], base_url)]

\* img tags: src, then data-src, of each tag in document order.
extract_from_img_tags(element, base_url) ==
    ResolveAll(Flatten([i \in 1..Len(element.imgs) |->
                          SelectSeq(<<element.imgs[i].src, element.imgs[i].data_src>>,
                                    NonEmpty)]), base_url)

\* All direct src attributes of the tags, then all nested source tags.
SourcesOfTagsDirectFirst(tags, base_url) ==
    ResolveAll(SelectSeq([i \in 1..Len(tags) |-> tags[i].src], NonEmpty)
               \o SelectSeq(Flatten([i \in 1..Len(tags) |-> tags[i].sources]), NonEmpty),
               base_url)

\* video / audio tags: the tag's src, then the src of its nested source tags.
SourcesOfTags(tags, base_url) ==
    ResolveAll(Flatten([i \in 1..Len(tags) |->
                          SelectSeq(<<tags[i].src>> \o tags[i].sources, NonEmpty)]),
               base_url)

extract_from_video_tags(element, base_url) == SourcesOfTags(element.videos, base_url)

extract_from_audio_tags(element, base_url) == SourcesOfTags(element.audios, base_url)

\* The if / elif chain of extract_from_links and extract_from_text.
IsImage(url) == is_media_url(url, IMAGE_EXTENSIONS)
IsVideo(url) == ~IsImage(url) /\ is_media_url(url, VIDEO_EXTENSIONS)
IsAudio(url) == ~IsImage(url) /\ ~is_media_url(url, VIDEO_EXTENSIONS)
                /\ is_media_url(url, AUDIO_EXTENSIONS)

\* background-image / mask-image URLs of the inline styles that are images.
extract_from_css(element, base_url) ==
    SelectSeq(ResolveAll(Flatten([i \in 1..Len(element.styles) |->
                                    element.styles[i].bg \o element.styles[i].mask]),
                         base_url), IsImage)

\* a tags with a non-empty href
extract_from_links(element, base_url) ==
    ResolveAll(SelectSeq(element.links, NonEmpty), base_url)

\* The characters the URL pattern excludes after the scheme.
UrlStop(c) == c \in {" ", "<", ">", "\"", "'"}

\* re.findall(r'https?://[^\s<>"\']+\.(?:<extensions>)', ..., re.IGNORECASE) on one
\* whitespace-free piece of text: the match starts at the first http:// or https://
\* and, being greedy, ends at the last extension it can reach; "" when none.
\* low: the piece in lower case; i: where the match starts; body: where the
\* characters after the scheme start.
MatchStarts(low) ==
    {i \in 1..Len(low) :
       StartsWith(From(low, i), "http://") \/ StartsWith(From(low, i), "https://")}

MatchLimit(piece, body) ==
    IF \E j \in body..Len(piece) : UrlStop(SubSeq(piece, j, j))
      THEN SetMin({j \in body..Len(piece) : UrlStop(SubSeq(piece, j, j))}) - 1
      ELSE Len(piece)

MatchEnds(low, i, body, limit) ==
    {j \in (body + 1)..limit :
       \E ext \in IMAGE_EXTENSIONS \cup VIDEO_EXTENSIONS \cup AUDIO_EXTENSIONS :
          /\ EndsWith(SubSeq(low, i, j), ext)
          /\ j - Len(ext) >= body}

MatchUpTo(piece, i, ends) ==
    IF ends = {} THEN ""
    ELSE SubSeq(piece, i, CHOOSE j \in ends : \A k \in ends : k <= j)

MatchBody(piece, low, i, body) ==
    MatchUpTo(piece, i, MatchEnds(low, i, body, MatchLimit(piece, body)))

MatchAt(piece, low, i) ==
    IF i = 0 THEN ""
    ELSE MatchBody(piece, low, i,
                   IF StartsWith(From(low, i), "https://") THEN i + 8 ELSE i + 7)

MatchIn(piece, low) == MatchAt(piece, low, First(MatchStarts(low)))

UrlMatch(piece) == MatchIn(piece, Lower(piece))

\* The attribute values of the element that hold URLs, in the order of str(element):
\* img tags, video tags, audio tags, styled elements, a tags.
AttrUrls(element) ==
    Flatten([i \in 1..Len(element.imgs) |->
               <<element.imgs[i].src, element.imgs[i].data_src>>])
    \o Flatten([i \in 1..Len(element.videos) |->
                  <<element.videos[i].src>> \o element.videos[i].sources])
    \o Flatten([i \in 1..Len(element.audios) |->
                  <<element.audios[i].src>> \o element.audios[i].sources])
    \o Flatten([i \in 1..Len(element.styles) |->
                  element.styles[i].bg \o element.styles[i].mask])
    \o element.links

\* The non-empty matches of the URL pattern in the pieces, in order.
FoundIn(pieces) == SelectSeq([i \in 1..Len(pieces) |-> UrlMatch(pieces[i])], NonEmpty)

\* text_urls of extract_from_text: the matches in element.get_text() followed by
\* those in str(element), which holds the attributes and then the text.
extract_from_text(element, base_url) ==
    ResolveAll(FoundIn(element.text_urls \o AttrUrls(element) \o element.text_urls),
               base_url)

\* A removal of duplicates that keeps the last occurrence of each URL.
RECURSIVE DedupKeepLast(_, _)
DedupKeepLast(s, seen) ==
    IF s = <<>> THEN <<>>
    ELSE IF \E i \in 2..Len(s) : s[i] = Head(s) THEN DedupKeepLast(Tail(s), seen)
    ELSE <<Head(s)>> \o DedupKeepLast(Tail(s), seen)

\* dict.fromkeys: the first occurrence of each URL, in order.
RECURSIVE Dedup(_, _)
Dedup(s, seen) ==
    IF s = <<>> THEN <<>>
    ELSE IF Head(s) \in seen THEN Dedup(Tail(s), seen)
    ELSE <<Head(s)>> \o Dedup(Tail(s), seen \cup {Head(s)})

EmptyBundle == [images |-> <<>>, videos |-> <<>>, audio |-> <<>>]

\* The if / elif chain over the URLs of the a tags (links) and of the text (text).
Classified(element, base_url, links, text) ==
    [images |-> extract_from_img_tags(element, base_url)
                 \o extract_from_css(element, base_url)
                 \o SelectSeq(links, IsImage) \o SelectSeq(text, IsImage),
     videos |-> extract_from_video_tags(element, base_url)
                 \o SelectSeq(links, IsVideo) \o SelectSeq(text, IsVideo),
     audio |-> extract_from_audio_tags(element, base_url)
                \o SelectSeq(links, IsAudio) \o SelectSeq(text, IsAudio)]

\* media_links of extract_media_links before the duplicates are removed: the passes
\* in the order img/video/audio tags, css, links, text.
Discovered(element, base_url) ==
    Classified(element, base_url, extract_from_links(element, base_url),
               extract_from_text(element, base_url))

extract_media_links(element, base_url) ==
    LET media_links == Discovered(element, base_url)
    IN [key \in {"images", "videos", "audio"} |-> Dedup(media_links[key], {})]

\* ---- FacebookAdScraper (scrapers/ad_scraper.py) ----

\* What select_one(selector) on an item container gives: no element ("absent"),
\* an exception ("raises"), or an element with its text, href and media content.
NoMedia == [imgs |-> <<>>, videos |-> <<>>, audios |-> <<>>, styles |-> <<>>,
            links |-> <<>>, text_urls |-> <<>>]

Absent == [st |-> "absent", text |-> <<>>, href |-> <<>>, media |-> NoMedia]
Raises == [st |-> "raises", text |-> <<>>, href |-> <<>>, media |-> NoMedia]
Element(text) == [st |-> "present", text |-> text, href |-> <<>>, media |-> NoMedia]
Anchor(text, href) == [st |-> "present", text |-> text, href |-> href, media |-> NoMedia]
MediaContainer(m) == [st |-> "present", text |-> <<>>, href |-> <<>>, media |-> m]

Selectors == {"library_id", "start_date", "category", "cta", "page_name", "a",
              "ad_description", "media"}

\* elem.get_text(strip=True) if elem else ""
TextOrEmpty(elem) == IF elem.st = "present" THEN elem.text ELSE <<>>

\* re.search(r'Library ID:\s*(\d+)', text): index of the phrase, 0 when no match.
LibraryIdMatch(text) ==
    First({i \in 1..(Len(text) - 1) : text[i] = "Library ID:" /\ IsDigits(text[i + 1])})

\* The text is discarded when the pattern does not match.
extract_library_id_or_nothing(ad_wrapper) ==
    LET elem == ad_wrapper["library_id"]
        library_id_text == TextOrEmpty(elem)
        m == LibraryIdMatch(library_id_text)
    IN IF elem.st = "raises" THEN EmptyStr
       ELSE IF m /= 0 THEN PyStr(<<library_id_text[m + 1]>>)
       ELSE EmptyStr

extract_library_id(ad_wrapper) ==
    LET elem == ad_wrapper["library_id"]
        library_id_text == TextOrEmpty(elem)
        m == LibraryIdMatch(library_id_text)
    IN IF elem.st = "raises" THEN EmptyStr
       ELSE IF m /= 0 THEN PyStr(<<library_id_text[m + 1]>>)
       ELSE PyStr(library_id_text)

extract_start_date_info(ad_wrapper, now) ==
    LET elem == ad_wrapper["start_date"]
    IN IF elem.st = "raises" THEN [start_at |-> EmptyStr]
       ELSE extract_ad_times(TextOrEmpty(elem), now)

\* One text field of extract_basic_info: "" when the lookup raises or finds nothing.
TextField(ad_wrapper, selector) ==
    IF ad_wrapper[selector].st = "raises" THEN EmptyStr
    ELSE PyStr(TextOrEmpty(ad_wrapper[selector]))

extract_basic_info(ad_wrapper) ==
    [category_name |-> TextField(ad_wrapper, "category"),
     cta |-> TextField(ad_wrapper, "cta"),
     page_name |-> TextField(ad_wrapper, "page_name"),
     page_image_link |-> IF ad_wrapper["a"].st = "present"
                           THEN PyStr(ad_wrapper["a"].href) ELSE EmptyStr,
     ad_description |-> TextField(ad_wrapper, "ad_description"),
     page_link |-> TextField(ad_wrapper, "a")]

\* The media containers of the model.
M1 == [imgs |-> <<[src |-> "https://cdn/a.jpg", data_src |-> ""],
                  [src |-> "https://cdn/b.png", data_src |-> "https://cdn/a.jpg"]>>,
       videos |-> <<>>, audios |-> <<>>, styles |-> <<>>, links |-> <<>>,
       text_urls |-> <<"https://cdn/a.jpg", "https://cdn/b.png">>]

M2 == [imgs |-> <<>>,
       videos |-> <<[src |-> "https://cdn/v.mp4", sources |-> <<"https://cdn/w.MP4">>]>>,
       audios |-> <<[src |-> "", sources |-> <<"https://cdn/s.mp3">>]>>,
       styles |-> <<[bg |-> <<"https://cdn/d.JPG">>, mask |-> <<"https://cdn/x.xyz">>]>>,
       links |-> <<"https://cdn/v.mp4", "https://fb.com/page">>,
       text_urls |-> <<"https://cdn/v.mp4", "https://cdn/w.MP4", "https://cdn/s.mp3">>]

\* extract_media_links(target_element) for the media containers of the model,
\* evaluated once.
MediaLinksOf == [m \in {M1, M2} |-> extract_media_links(m, NoBase)]

extract_media_info(ad_wrapper) ==
    LET target_element == ad_wrapper["media"]
    IN IF target_element.st = "present"
         THEN (IF target_element.media \in DOMAIN MediaLinksOf
                 THEN MediaLinksOf[target_element.media]
                 ELSE extract_media_links(target_element.media, NoBase))
       ELSE EmptyBundle

\* datetime.now().isoformat(): a non-empty rendering of the instant.
isoformat(now) == [k |-> "str", s |-> <<"iso8601">>, n |-> now]

\* dict.update: the keys of e are added to d or overwrite d's.
Update(d, e) == e @@ d

scrape_single_ad(ad_wrapper, kw, now) ==
    LET d1 == [library_id |-> extract_library_id(ad_wrapper)]
        d2 == Update(d1, extract_start_date_info(ad_wrapper, now))
        d3 == Update(d2, extract_basic_info(ad_wrapper))
        d4 == Update(d3, [media_links |-> extract_media_info(ad_wrapper)])
    IN Update(d4, [keyword |-> PyStr(<<kw>>), scraped_at |-> isoformat(now)])

\* ---- the inputs explored ----

TimeTexts ==
    {<<>>,
     <<"Started running on", "28", "May", "2025", "<middot>", "Total active time", "3", "Hrs">>,
     <<"Started running on", "28", "May", "2025">>,
     <<"Started running on", "5", "Jan", "2025">>,
     <<"Started running on", "31", "Sept", "2024">>,
     <<"Sponsored">>}

LibraryTexts == {<<"Library ID:", "1665798290789134">>, <<"Sponsored">>}

LibraryOutcomes == {Absent, Raises} \cup {Element(t) : t \in LibraryTexts}
StartOutcomes == {Absent, Raises} \cup {Element(t) : t \in TimeTexts}
TextOutcomes == {Absent, Raises, Element(<<"Shop", "now">>)}
AnchorOutcomes == {Absent, Raises, Anchor(<<"Page">>, <<"https://fb.com/page">>)}
MediaOutcomes == {Absent, Raises, MediaContainer(M1), MediaContainer(M2)}

\* Every item container built from the lookup outcomes above.
AllFragments ==
    {[library_id |-> l, start_date |-> s, category |-> c, cta |-> t, page_name |-> p,
      a |-> a, ad_description |-> d, media |-> m] :
        l \in LibraryOutcomes, s \in StartOutcomes, c \in TextOutcomes,
        t \in TextOutcomes, p \in TextOutcomes, a \in AnchorOutcomes,
        d \in TextOutcomes, m \in MediaOutcomes}

FragEmpty == [sel \in Selectors |-> Absent]

FragBroken == [sel \in Selectors |-> Raises]

FragFull(id_text, time_text, m) ==
    [library_id |-> Element(id_text), start_date |-> Element(time_text),
     category |-> Element(<<"Shop", "now">>), cta |-> Element(<<"Shop", "now">>),
     page_name |-> Element(<<"Shop", "now">>),
     a |-> Anchor(<<"Page">>, <<"https://fb.com/page">>),
     ad_description |-> Element(<<"Shop", "now">>), media |-> MediaContainer(m)]

\* A container in which one lookup raises and every other one finds its element.
FragPartial ==
    [FragFull(<<"Library ID:", "1665798290789134">>,
              <<"Started running on", "5", "Jan", "2025">>, M1)
       EXCEPT !["page_name"] = Raises]

\* A container is well formed when none of its lookups raises.
WellFormed(ad_wrapper) == \A sel \in Selectors : ad_wrapper[sel] /= Raises

\* The containers a snapshot is made of.
FragPool ==
    {FragEmpty, FragBroken, FragPartial,
     FragFull(<<"Library ID:", "1665798290789134">>,
              <<"Started running on", "28", "May", "2025">>, M1),
     FragFull(<<"Sponsored">>,
              <<"Started running on", "28", "May", "2025", "<middot>", "Total active time",
                "3", "Hrs">>, M2)}

Snapshots == UNION {[1..n -> FragPool] : n \in 0..MaxAds}

Keywords == {"shoes", "bags"}

\* datetime.now() at the start of the call: 29 May 2025 00:00:00 and 2 hours after
\* 1 January 2025, in seconds since the epoch.
Clocks == {1748476800, 1735696800}

ExtractInit ==
    /\ xmode \in {"single", "plain", "batched"}
    /\ xpc = "call"
    /\ keyword \in IF xmode = "single" THEN {"shoes"} ELSE Keywords
    /\ clock \in Clocks
    /\ html \in IF xmode = "single" THEN {<<f>> : f \in AllFragments} ELSE Snapshots
    /\ ad_wrappers = IF xmode = "plain" THEN <<>> ELSE html
    /\ batch_size \in IF xmode = "batched" THEN 1..MaxBatch ELSE {1}
    /\ batch_idx = 0
    /\ pos = 1
    /\ batch_results = <<>>
    /\ scraped_data = <<>>

\* A direct call scrape_single_ad(ad_wrapper, keyword).
ScrapeSingleAd ==
    /\ xpc = "call"
    /\ xmode = "single"
    /\ scraped_data' = <<scrape_single_ad(ad_wrappers[1], keyword, clock)>>
    /\ xpc' = "done"
    /\ UNCHANGED <<xmode, html, ad_wrappers, keyword, clock, batch_size, batch_idx, pos,
                   batch_results>>
    /\ UNCHANGED <<acqVars, fnVars, laterVars>>

\* scrape_facebook_ads: BeautifulSoup(html_content), soup.select(AD_WRAPPER_SELECTOR),
\* scraped_data = []; an exception is caught by the outer handler, which returns [].
ParseSnapshot ==
    /\ xpc = "call"
    /\ xmode = "plain"
    /\ \E ok \in BOOLEAN :
         IF ok THEN /\ ad_wrappers' = html
                    /\ xpc' = "loop"
               ELSE /\ xpc' = "done"
                    /\ UNCHANGED ad_wrappers
    /\ scraped_data' = <<>>
    /\ pos' = 1
    /\ UNCHANGED <<xmode, html, keyword, clock, batch_size, batch_idx, batch_results>>
    /\ UNCHANGED <<acqVars, fnVars, laterVars>>

ScrapeNextAdPrepend ==
    /\ xpc = "loop"
    /\ pos <= Len(ad_wrappers)
    /\ scraped_data' = <<scrape_single_ad(ad_wrappers[pos], keyword, clock)>> \o scraped_data
    /\ pos' = pos + 1
    /\ clock' = clock + 1
    /\ UNCHANGED <<xpc, xmode, html, ad_wrappers, keyword, batch_size, batch_idx,
                   batch_results>>
    /\ UNCHANGED <<acqVars, fnVars, laterVars>>

\* The loop body if a failing lookup reached the handler of scrape_facebook_ads.
ScrapeNextAdAbort ==
    /\ xpc = "loop"
    /\ pos <= Len(ad_wrappers)
    /\ IF WellFormed(ad_wrappers[pos])
         THEN /\ scraped_data' = Append(scraped_data,
                                        scrape_single_ad(ad_wrappers[pos], keyword, clock))
              /\ pos' = pos + 1
              /\ UNCHANGED xpc
         ELSE /\ scraped_data' = <<>>
              /\ xpc' = "done"
              /\ UNCHANGED pos
    /\ clock' = clock + 1
    /\ UNCHANGED <<xmode, html, ad_wrappers, keyword, batch_size, batch_idx, batch_results>>
    /\ UNCHANGED <<acqVars, fnVars, laterVars>>

\* for i, ad_wrapper in enumerate(ad_wrappers, 1): scrape_single_ad, append
ScrapeNextAd ==
    /\ xpc = "loop"
    /\ pos <= Len(ad_wrappers)
    /\ scraped_data' = Append(scraped_data, scrape_single_ad(ad_wrappers[pos], keyword, clock))
    /\ pos' = pos + 1
    /\ clock' = clock + 1
    /\ UNCHANGED <<xpc, xmode, html, ad_wrappers, keyword, batch_size, batch_idx,
                   batch_results>>
    /\ UNCHANGED <<acqVars, fnVars, laterVars>>

\* return scraped_data
ScrapeReturn ==
    /\ xpc = "loop"
    /\ pos > Len(ad_wrappers)
    /\ xpc' = "done"
    /\ UNCHANGED <<xmode, html, ad_wrappers, keyword, clock, batch_size, batch_idx, pos,
                   batch_results, scraped_data>>
    /\ UNCHANGED <<acqVars, fnVars, laterVars>>

\* The slice ad_elements[batch_idx:batch_idx + batch_size].
Batch ==
    SubSeq(ad_wrappers, batch_idx + 1,
           IF batch_idx + batch_size < Len(ad_wrappers)
             THEN batch_idx + batch_size ELSE Len(ad_wrappers))

\* process_ads_in_batches: for batch_idx in range(0, len(ad_elements), batch_size):
\* the batch is sliced and batch_results = []
BatchBegin ==
    /\ xpc \in {"call", "batches"}
    /\ xmode = "batched"
    /\ batch_idx < Len(ad_wrappers)
    /\ batch_results' = <<>>
    /\ pos' = 1
    /\ xpc' = "batch"
    /\ UNCHANGED <<xmode, html, ad_wrappers, keyword, clock, batch_size, batch_idx,
                   scraped_data>>
    /\ UNCHANGED <<acqVars, fnVars, laterVars>>

\* for ad_element in batch: batch_results.append(scrape_single_ad(ad_element, keyword))
BatchScrape ==
    /\ xpc = "batch"
    /\ pos <= Len(Batch)
    /\ batch_results' = Append(batch_results, scrape_single_ad(Batch[pos], keyword, clock))
    /\ pos' = pos + 1
    /\ clock' = clock + 1
    /\ UNCHANGED <<xpc, xmode, html, ad_wrappers, keyword, batch_size, batch_idx,
                   scraped_data>>
    /\ UNCHANGED <<acqVars, fnVars, laterVars>>

BatchEndPrepend ==
    /\ xpc = "batch"
    /\ pos > Len(Batch)
    /\ scraped_data' = batch_results \o scraped_data
    /\ batch_results' = <<>>
    /\ batch_idx' = batch_idx + batch_size
    /\ xpc' = "batches"
    /\ UNCHANGED <<xmode, html, ad_wrappers, keyword, clock, batch_size, pos>>
    /\ UNCHANGED <<acqVars, fnVars, laterVars>>

\* all_ads.extend(batch_results); del batch_results; gc.collect(); sleep
BatchEnd ==
    /\ xpc = "batch"
    /\ pos > Len(Batch)
    /\ scraped_data' = scraped_data \o batch_results
    /\ batch_results' = <<>>
    /\ batch_idx' = batch_idx + batch_size
    /\ xpc' = "batches"
    /\ UNCHANGED <<xmode, html, ad_wrappers, keyword, clock, batch_size, pos>>
    /\ UNCHANGED <<acqVars, fnVars, laterVars>>

\* return all_ads
BatchReturn ==
    /\ xpc \in {"call", "batches"}
    /\ xmode = "batched"
    /\ batch_idx >= Len(ad_wrappers)
    /\ xpc' = "done"
    /\ UNCHANGED <<xmode, html, ad_wrappers, keyword, clock, batch_size, batch_idx, pos,
                   batch_results, scraped_data>>
    /\ UNCHANGED <<acqVars, fnVars, laterVars>>

(***************************************************************************)
(* Part 3: single calls of the functions                                   *)
(***************************************************************************)
MaxImgs == 2          \* img tags per media container

UrlA == "https://h/a.jpg"
UrlARel == "a.jpg"
UrlB == "https://cdn/b.png"
UrlV == "https://cdn/v.mp4"

\* The base the relative URL of the pool resolves against to give UrlA.
BaseH == "https://h/"

ImgTags == {[src |-> src, data_src |-> d] : src \in {UrlA, UrlARel}, d \in {"", UrlB}}

\* What a media container holds besides its img tags.
NoRest == [videos |-> <<>>, audios |-> <<>>, styles |-> <<>>, links |-> <<>>,
           text_urls |-> <<>>]

Rests ==
    {NoRest,
     [videos |-> <<[src |-> UrlV, sources |-> <<UrlV, "https://cdn/w.MP4">>]>>,
      audios |-> <<[src |-> "", sources |-> <<"https://cdn/s.mp3", "https://cdn/s.mp3">>]>>,
      styles |-> <<>>, links |-> <<UrlV, UrlARel, UrlB>>, text_urls |-> <<>>],
     [videos |-> <<>>, audios |-> <<>>,
      styles |-> <<[bg |-> <<UrlA>>, mask |-> <<"https://cdn/d.JPG", "https://cdn/x.xyz">>]>>,
      links |-> <<"https://cdn/s.mp3", "https://fb.com/page">>,
      text_urls |-> <<UrlB, "https://cdn/s.mp3", UrlV, UrlB>>],
     [videos |-> <<[src |-> "", sources |-> <<"https://cdn/w.MP4">>],
                   [src |-> UrlV, sources |-> <<"https://cdn/w.MP4">>]>>,
      audios |-> <<[src |-> "https://cdn/s.mp3", sources |-> <<"t.ogg">>],
                   [src |-> "https://cdn/u.wav", sources |-> <<>>]>>,
      styles |-> <<>>, links |-> <<"https://cdn/z.webm">>, text_urls |-> <<>>]}

MediaElements ==
    {[imgs |-> imgs, videos |-> r.videos, audios |-> r.audios, styles |-> r.styles,
      links |-> r.links, text_urls |-> r.text_urls] :
        imgs \in UNION {[1..n -> ImgTags] : n \in 0..MaxImgs}, r \in Rests}

\* What select_one(LIBRARY_ID_SELECTOR) gives in the calls of extract_library_id:
\* nothing, an exception, or an element whose text holds the phrase never, once
\* or several times, with and without digits after it.
LibraryIdTexts ==
    {before \o phrase \o after :
        before \in {<<>>, <<"Sponsored">>, <<"Library ID:", "pending">>},
        phrase \in {<<>>, <<"Library ID:">>, <<"Library ID:", "1665798290789134">>},
        after \in {<<>>, <<"Active">>, <<"Library ID:", "2024">>, <<"28">>}}

LibraryIdElements == {Absent, Raises} \cup {Element(t) : t \in LibraryIdTexts}

\* The durations format_duration_from_seconds is called with: seconds, and the
\* whole years, months, days, hours and minutes it is made of.
UnitSize == [years |-> 31557600, months |-> 2630016, days |-> 86400, hours |-> 3600,
             minutes |-> 60]

FormatDurations ==
    {[seconds |-> y * UnitSize.years + mo * UnitSize.months + d * UnitSize.days
                    + h * UnitSize.hours + mi * UnitSize.minutes + sec,
      years |-> y, months |-> mo, days |-> d, hours |-> h, minutes |-> mi, rest |-> sec] :
        y \in {0, 1, 2}, mo \in {0, 1, 11}, d \in {0, 1, 29}, h \in {0, 1, 23},
        mi \in {0, 1, 59}, sec \in {0, 59}}

\* The urls and the bases resolve_url is called with.
ResolveUrls ==
    {"", "a.jpg", "/a.jpg", "../a.jpg", "./a.jpg", "d/a.jpg", "..", "?q=1", "#f", "a;b.jpg",
     "//cdn/a.jpg", "http://x/a.jpg", "https://x/a.jpg", "HTTP://x/a.jpg", "ftp://x/a.jpg",
     "ftp://[x/a.jpg", "data:image/png;base64,xx"}

ResolveBases ==
    {NoBase, "https://h/p/", "https://h/p/x.html", "https://h", "HTTPS://H/P/",
     "http://h/p;z/x?q", "http://[h/", "ftp://h/p/", "//h/p/", "/p/", "p", "p/", "../p/"}

\* str.upper(), character by character.
RECURSIVE Upper(_)
Upper(s) ==
    IF s = "" THEN ""
    ELSE LET S == {j \in 1..26 : SubSeq(Lowers, j, j) = Head(s)}
         IN (IF S = {} THEN Head(s)
             ELSE LET k == CHOOSE j \in S : TRUE IN SubSeq(Uppers, k, k))
            \o Upper(Tail(s))

\* The URLs is_media_url is called with: a stem, a suffix written in one of three
\* letter cases, and what follows the path.
UrlStems == {"photo", "file", "https://cdn.ogg/dir.mp4/clip"}
OtherSuffixes == {"", ".xyz", ".jpg.bak", "jpg", ".mp"}
UrlSuffixes == IMAGE_EXTENSIONS \cup VIDEO_EXTENSIONS \cup AUDIO_EXTENSIONS \cup OtherSuffixes
LetterCases == {"lower", "upper", "capital"}
UrlTails == {"", "?v=1.mp3", "#t.png"}

InCase(suffix, case) ==
    CASE case = "lower" -> suffix
      [] case = "upper" -> Upper(suffix)
      [] case = "capital" ->
           IF Len(suffix) < 2 THEN suffix
           ELSE SubSeq(suffix, 1, 1) \o Upper(SubSeq(suffix, 2, 2)) \o From(suffix, 3)

\* The start dates of the texts extract_ad_times is called with: the tokens of the
\* date, whether it is a calendar date, and its timestamp (midnight, UTC).
NoDate == [tokens |-> <<>>, kind |-> "none", ts |-> 0]

DateChoices ==
    {NoDate,
     [tokens |-> <<"28", "May", "2025">>, kind |-> "valid", ts |-> 1748390400],
     [tokens |-> <<"5", "Jan", "2025">>, kind |-> "valid", ts |-> 1736035200],
     [tokens |-> <<"1", "January", "1970">>, kind |-> "valid", ts |-> 0],
     [tokens |-> <<"31", "December", "1969">>, kind |-> "valid", ts |-> -86400],
     [tokens |-> <<"31", "Sept", "2024">>, kind |-> "invalid", ts |-> 0],
     [tokens |-> <<"30", "February", "2025">>, kind |-> "invalid", ts |-> 0]}

\* The durations of the texts: the quantity of each unit (-1: the unit does not
\* occur), the spelling of the units and whether a word precedes them.
NoDuration == [present |-> FALSE, days |-> -1, hours |-> -1, minutes |-> -1,
               seconds |-> -1, spelling |-> 1, filler |-> FALSE]

DurationChoices ==
    {NoDuration} \cup
    {[present |-> TRUE, days |-> d, hours |-> h, minutes |-> m, seconds |-> sec,
      spelling |-> sp, filler |-> f] :
        d \in {-1, 2}, h \in {-1, 1, 3}, m \in {-1, 30}, sec \in {-1, 45},
        sp \in {1, 2}, f \in BOOLEAN}

UnitSpellings ==
    [days |-> <<"days", "Day">>, hours |-> <<"hrs", "Hours">>,
     minutes |-> <<"mins", "minute">>, seconds |-> <<"secs", "Seconds">>]

UnitTokens(dur, unit) ==
    IF dur[unit] < 0 THEN <<>> ELSE <<ToStr(dur[unit]), UnitSpellings[unit][dur.spelling]>>

\* What follows 'Total active time' in the text of a duration.
FreeText(dur) ==
    (IF dur.filler THEN <<"about">> ELSE <<>>)
    \o UnitTokens(dur, "days") \o UnitTokens(dur, "hours")
    \o UnitTokens(dur, "minutes") \o UnitTokens(dur, "seconds")

TextTails == {<<>>, <<"<middot>", "Active">>}

\* The text of the element: the start date, the separator, the duration, the tail.
StartText(date, dur, tail) ==
    (IF date.kind = "none" THEN <<>> ELSE <<"Started running on">> \o date.tokens)
    \o (IF date.kind /= "none" /\ dur.present THEN <<"<middot>">> ELSE <<>>)
    \o (IF dur.present THEN <<"Total active time">> \o FreeText(dur) ELSE <<>>)
    \o tail

\* The arguments of one call, per function.
FnArgs(f) ==
    CASE f = "extract_media_links" ->
           {[element |-> el, base_url |-> b] : el \in MediaElements, b \in {NoBase, BaseH}}
      [] f = "resolve_url" ->
           {[url |-> u, base_url |-> b] : u \in ResolveUrls, b \in ResolveBases}
      [] f = "is_media_url" ->
           {[url |-> stem \o InCase(suffix, case) \o tail, stem |-> stem,
             suffix |-> suffix, case |-> case, tail |-> tail] :
               stem \in UrlStems, suffix \in UrlSuffixes, case \in LetterCases,
               tail \in UrlTails}

      [] f = "extract_ad_times" ->
           {[text |-> StartText(date, dur, tail), date |-> date, dur |-> dur,
             tail |-> tail, now |-> now] :
               date \in DateChoices, dur \in DurationChoices, tail \in TextTails,
               now \in Clocks}
      [] f = "try_load_more_content" ->
           {[present |-> present, fail_at |-> fail_at] :
               present \in SUBSET PageSelectors, fail_at \in FailPoints}
      [] f = "format_duration_from_seconds" -> FormatDurations
      [] f = "extract_library_id" ->
           {[ad_wrapper |-> [library_id |-> elem]] : elem \in LibraryIdElements}

FnNames == {"extract_media_links", "resolve_url", "is_media_url", "extract_ad_times",
            "try_load_more_content", "extract_library_id",
            "format_duration_from_seconds"}

FnInit ==
    /\ fn \in FnNames
    /\ fpc = "call"
    /\ args \in FnArgs(fn)
    /\ ret = <<>>

\* One call extract_media_links(element, base_url).
CallExtractMediaLinks ==
    /\ fn = "extract_media_links"
    /\ fpc = "call"
    /\ ret' = extract_media_links(args.element, args.base_url)
    /\ fpc' = "done"
    /\ UNCHANGED <<fn, args>>
    /\ UNCHANGED <<acqVars, exVars, laterVars>>

(***************************************************************************)
(* Specifications                                                          *)
(***************************************************************************)
\* No extraction call is in progress.
ExIdle ==
    /\ xpc = "idle"
    /\ xmode = "plain"
    /\ html = <<>>
    /\ ad_wrappers = <<>>
    /\ keyword = "shoes"
    /\ clock = 0
    /\ batch_size = 1
    /\ batch_idx = 0
    /\ pos = 1
    /\ batch_results = <<>>
    /\ scraped_data = <<>>

\* No acquisition run is in progress.
AcqIdle ==
    /\ variant = "basic"
    /\ pc = "start"
    /\ stop_scrolling = FALSE
    /\ listener = "none"
    /\ scroll_count = 0
    /\ last_height = 0
    /\ stall_count = 0
    /\ new_height = 0
    /\ element_count = 0
    /\ content_loaded = FALSE
    /\ last_visible = {}
    /\ page_height = 0
    /\ page_items = 0
    /\ probe = "ok"
    /\ handled = "none"
    /\ source_calls = <<>>
    /\ result = NoMarkup
    /\ outcome = "running"
    /\ prev_sample = <<>>
    /\ max_sample = 0

\* No function call is in progress.
FnIdle ==
    /\ fn = "none"
    /\ fpc = "idle"
    /\ args = <<>>
    /\ ret = <<>>

\* No run sequence, no adaptive controller and no keyword processing is at work.
RunsIdle ==
    /\ run_count = 0
    /\ rpc = "idle"
    /\ flags = <<>>
    /\ threads = <<>>
    /\ endings = <<>>

AdaptIdle ==
    /\ base_wait_time = <<0, 0>>
    /\ current_wait_time = <<0, 0>>
    /\ scroll_attempts = 0
    /\ successful_scrolls = 0
    /\ load_times = <<>>

KwIdle ==
    /\ keywords = <<>>
    /\ max_concurrent = 1
    /\ kpc = "done"
    /\ batch_start = 1
    /\ tasks = <<>>
    /\ raising = {}
    /\ kw_results = <<>>
    /\ all_results = <<>>
    /\ failed_keywords = <<>>

LaterIdle == RunsIdle /\ AdaptIdle /\ KwIdle

Init == AcqInit /\ ExIdle /\ FnIdle /\ LaterIdle

Next ==
    \/ StartRun
    \/ ListenerStop
    \/ ListenerEOF
    \/ SessionLost
    \/ Interrupt
    \/ Prologue
    \/ WhileTest
    \/ ScrollCycle
    \/ Sample
    \/ Judge
    \/ Escalate
    \/ LoadingIndicator
    \/ LoadMore
    \/ Simulate
    \/ Resample
    \/ StallCheck
    \/ OptAdaptive
    \/ OptViewport
    \/ OptStall
    \/ Finish

\* One run of the acquisition loop.
Spec == Init /\ [][Next]_vars

InitExtract == AcqIdle /\ ExtractInit /\ FnIdle /\ LaterIdle

NextExtract ==
    \/ ScrapeSingleAd
    \/ ParseSnapshot
    \/ ScrapeNextAd
    \/ ScrapeReturn
    \/ BatchBegin
    \/ BatchScrape
    \/ BatchEnd
    \/ BatchReturn

\* One extraction call: scrape_single_ad, scrape_facebook_ads or process_ads_in_batches.
SpecExtract == InitExtract /\ [][NextExtract]_vars

\* resolve_url(url, base_url), and resolve_url again on what it returned.
CallResolveUrl ==
    /\ fn = "resolve_url"
    /\ fpc = "call"
    /\ ret' = IF resolve_url_raises(args.url, args.base_url)
                THEN [raised |-> TRUE, first |-> "", raised_again |-> FALSE, second |-> ""]
                ELSE LET first == resolve_url(args.url, args.base_url)
                     IN IF resolve_url_raises(first, args.base_url)
                          THEN [raised |-> FALSE, first |-> first, raised_again |-> TRUE,
                                second |-> ""]
                          ELSE [raised |-> FALSE, first |-> first, raised_again |-> FALSE,
                                second |-> resolve_url(first, args.base_url)]
    /\ fpc' = "done"
    /\ UNCHANGED <<fn, args>>
    /\ UNCHANGED <<acqVars, exVars, laterVars>>

\* is_media_url(url, extensions) for the image, the video and the audio extensions.
CallIsMediaUrl ==
    /\ fn = "is_media_url"
    /\ fpc = "call"
    /\ ret' = [images |-> is_media_url(args.url, IMAGE_EXTENSIONS),
               videos |-> is_media_url(args.url, VIDEO_EXTENSIONS),
               audio |-> is_media_url(args.url, AUDIO_EXTENSIONS)]
    /\ fpc' = "done"
    /\ UNCHANGED <<fn, args>>
    /\ UNCHANGED <<acqVars, exVars, laterVars>>

\* One call extract_ad_times(start_text), datetime.now() being args.now.
CallExtractAdTimes ==
    /\ fn = "extract_ad_times"
    /\ fpc = "call"
    /\ ret' = extract_ad_times_outcome(args.text, args.now)
    /\ fpc' = "done"
    /\ UNCHANGED <<fn, args>>
    /\ UNCHANGED <<acqVars, exVars, laterVars>>

\* One call try_load_more_content() on a page where the selectors args.present
\* match and the browser call number args.fail_at raises.
CallTryLoadMoreContent ==
    /\ fn = "try_load_more_content"
    /\ fpc = "call"
    /\ ret' = try_load_more_content(args.present, args.fail_at)
    /\ fpc' = "done"
    /\ UNCHANGED <<fn, args>>
    /\ UNCHANGED <<acqVars, exVars, laterVars>>

\* One call extract_library_id(ad_wrapper).
CallExtractLibraryId ==
    /\ fn = "extract_library_id"
    /\ fpc = "call"
    /\ ret' = extract_library_id(args.ad_wrapper)
    /\ fpc' = "done"
    /\ UNCHANGED <<fn, args>>
    /\ UNCHANGED <<acqVars, exVars, laterVars>>

\* One call format_duration_from_seconds(seconds).
CallFormatDuration ==
    /\ fn = "format_duration_from_seconds"
    /\ fpc = "call"
    /\ ret' = format_duration_from_seconds(args.seconds)
    /\ fpc' = "done"
    /\ UNCHANGED <<fn, args>>
    /\ UNCHANGED <<acqVars, exVars, laterVars>>

InitFn == AcqIdle /\ ExIdle /\ FnInit /\ LaterIdle

NextFn ==
    \/ CallExtractMediaLinks
    \/ CallResolveUrl
    \/ CallIsMediaUrl
    \/ CallExtractAdTimes
    \/ CallTryLoadMoreContent
    \/ CallExtractLibraryId
    \/ CallFormatDuration

\* One call of a function of media_extractor.py or date_utils.py, of
\* try_load_more_content, of extract_library_id or of format_duration_from_seconds.
SpecFn == InitFn /\ [][NextFn]_vars

(***************************************************************************)
(* Properties of the acquisition loop                                      *)
(***************************************************************************)
IterPcs == {"scroll", "sample", "judge", "escalate", "indicator", "loadmore",
            "simulate", "resample", "stallcheck",
            "o_adaptive", "o_viewport", "o_stall"}

LoopPcs == IterPcs \cup {"while"}

\* A step that takes the main thread out of the while-loop.
LeavesLoop == pc \in LoopPcs /\ pc' \notin LoopPcs

\* A step in which an except clause of the run catches an exception.
Caught == handled = "none" /\ handled' \in {"Exception", "KeyboardInterrupt"}

\* The except clause of try_load_more_content catches an exception of the loading
\* indicator test: the function returns without walking the selectors.
CaughtInside == pc = "indicator" /\ pc' = "simulate" /\ handled' = handled

\* The step of the growth decision (lines 129-135).
JudgeStep == pc = "judge" /\ pc' \in {"escalate", "stallcheck"}

\* The step that ends an iteration of the basic loop (lines 158-163).
EndOfIteration == pc = "stallcheck" /\ pc' = "while"

\* The position the main thread reaches next when its step raises nothing.
ExpectedNext ==
    CASE pc = "scroll" -> "sample"
      [] pc = "sample" -> "judge"
      [] pc = "judge" -> IF new_height > last_height THEN "stallcheck"
                         ELSE IF stall_count + 1 < MAX_STALLS THEN "escalate"
                         ELSE "stallcheck"
      [] pc = "escalate" -> "indicator"
      [] pc = "indicator" -> "loadmore"
      [] pc = "loadmore" -> "simulate"
      [] pc = "simulate" -> "resample"
      [] pc = "resample" -> "stallcheck"
      [] pc = "stallcheck" -> "while"
      [] pc = "o_adaptive" -> "o_viewport"
      [] pc = "o_viewport" -> "o_stall"
      [] pc = "o_stall" -> "while"
      [] OTHER -> pc

\* C1 (as claimed): the while-loop is left only at an iteration boundary at which
\* stop_scrolling is observed set; nothing else, no error inside an iteration
\* either, ends the loop.
C1_OnlyTheFlagEndsTheLoop ==
    [][LeavesLoop => (pc = "while" /\ stop_scrolling /\ handled' = handled)]_vars

\* C1 (amended): the while-loop is left either at an iteration boundary at which
\* stop_scrolling is observed set, or because an exception (a probe error or
\* KeyboardInterrupt) raised inside the try block is caught by the run's except
\* clauses; no stall count, completion test or timeout ends it, and a run that has
\* left the loop has the flag set or an except clause executed.
C1_LoopEndsByFlagOrException ==
    /\ [][LeavesLoop => \/ (pc = "while" /\ stop_scrolling /\ handled' = handled)
                        \/ Caught]_vars
    /\ [](pc \in {"finish", "done"} => (stop_scrolling \/ handled /= "none"))

C1_Witness ==
    /\ outcome = "returned"
    /\ handled = "none"
    /\ stop_scrolling
    /\ scroll_count >= 1

\* C2: stalls never stop acquisition: at every iteration boundary
\* 0 <= stall_count < MAX_STALLS, the step that ends an iteration goes back to the
\* while-test however many stalls were counted, and from the while-test with the
\* flag unset the loop starts another iteration.
C2_StallsNeverStop ==
    /\ [](pc = "while" => (stall_count >= 0 /\ stall_count < MAX_STALLS))
    /\ [][(pc \in {"stallcheck", "o_stall"} /\ pc' /= pc /\ ~Caught)
            => (pc' = "while" /\ stall_count' < MAX_STALLS)]_vars
    /\ [][(pc = "while" /\ ~stop_scrolling /\ pc' /= pc /\ ~Caught)
            => (pc' \in {"scroll", "o_adaptive"} /\ scroll_count' = scroll_count + 1)]_vars

\* MAX_STALLS consecutive stalls were counted (the height never exceeded 0), the
\* counter was reset, and a further iteration is running.
C2_Witness ==
    /\ variant = "basic"
    /\ scroll_count > MAX_STALLS
    /\ last_height = 0
    /\ stall_count = 0
    /\ pc = "scroll"

C5_CooperativeCancellation ==
    /\ [][(stop_scrolling /\ pc \in IterPcs /\ pc' /= pc)
            => (pc' = ExpectedNext \/ CaughtInside \/ (Caught /\ pc' = "finish"))]_vars
    /\ [][(stop_scrolling /\ pc = "while" /\ pc' /= pc)
            => (pc' = "finish" /\ scroll_count' = scroll_count)]_vars

\* The flag was set during an iteration and the escalation's re-sample still runs.
C5_Witness ==
    /\ stop_scrolling
    /\ pc = "resample"
    /\ handled = "none"

C7_FatalErrorPropagates ==
    /\ [][(probe = "gone" /\ pc \in {"scroll", "o_adaptive"} /\ pc' /= pc)
            => pc' = "finish"]_vars
    /\ []((pc = "done" /\ probe = "gone") => (outcome = "raised" /\ result = NoMarkup))

\* The session was lost inside the loop, the except clause ran, the run raised.
C7_Witness ==
    /\ pc = "done"
    /\ probe = "gone"
    /\ handled = "Exception"
    /\ scroll_count >= 1
    /\ outcome = "raised"

\* C8 (as claimed): a single failed probe query is caught inside the iteration and
\* the loop continues: while the session is alive the run's "except Exception"
\* clause, which ends the loop, is never reached.
C8_TransientFailureNonFatal ==
    probe = "ok" => handled /= "Exception"

\* A step of the main thread that is not cut short by Ctrl+C.
MainStep == pc' /= pc /\ handled' /= "KeyboardInterrupt"

\* The growth decision finds no growth.
Stalled == pc = "judge" /\ ~(new_height > last_height)

EscalationPcs == {"escalate", "indicator", "loadmore", "simulate"}

C18_WitnessEscalated ==
    /\ pc = "resample"
    /\ stall_count = MAX_STALLS - 1
    /\ handled = "none"

\* The three steps of the alternate-load escalation.
LoadTriggerPcs == {"indicator", "loadmore", "simulate"}

\* C19: each escalation step is independently fallible: whether or not it fails, the
\* loading-indicator check is followed by the load-more walk, the walk by the
\* synthetic event dispatch and the dispatch by the second sample, and no except
\* clause of the run is reached from any of them.
C19_EscalationStepsIndependentlyFallible ==
    /\ [][(pc \in LoadTriggerPcs /\ MainStep) => pc' = ExpectedNext]_vars
    /\ [][(pc \in LoadTriggerPcs /\ MainStep) => handled' = handled]_vars

\* C30: within one run last_height never decreases, and at every iteration boundary
\* it is the largest height among the growth-check samples taken so far in the run
\* (0 before any sample), also when the page reports shrinking heights.
C30_LastHeightIsLargestSample ==
    /\ [][last_height' >= last_height]_vars
    /\ [][(variant = "basic" /\ pc' = "while") => last_height' = max_sample']_vars

\* An iteration boundary after the page reported a height below one accepted
\* earlier: last_height still is the largest sample.
C30_Witness ==
    /\ variant = "basic"
    /\ pc = "while"
    /\ scroll_count >= 2
    /\ 0 < new_height
    /\ new_height < last_height
    /\ last_height = max_sample

(***************************************************************************)
(* Properties of record extraction                                         *)
(***************************************************************************)
RecordKeys ==
    {"library_id", "start_date", "start_date_timestamp", "activity_duration",
     "activity_duration_timestamp", "start_at", "category_name", "cta", "page_name",
     "page_image_link", "ad_description", "page_link", "media_links", "keyword",
     "scraped_at"}

ScalarKeys == RecordKeys \ {"media_links", "keyword", "scraped_at"}

\* C9 (as claimed): every record produced by scrape_single_ad has the same fixed key
\* set whatever the item container holds, and a container in which no selector
\* matches gives the empty string in every scalar field and three empty media lists.
C9_FixedKeySet ==
    (xmode = "single" /\ xpc = "done") =>
        /\ DOMAIN scraped_data[1] = RecordKeys
        /\ (ad_wrappers[1] = FragEmpty =>
              /\ \A key \in ScalarKeys : scraped_data[1][key] = EmptyStr
              /\ scraped_data[1]["media_links"] = EmptyBundle)

\* C10: for a snapshot with n matched item containers scrape_facebook_ads returns
\* exactly n records, the i-th made from the i-th container, each with the keyword of
\* the call and a non-empty scraped_at; process_ads_in_batches gives the same order
\* for every batch size >= 1.
C10_CountAndOrder ==
    (xmode \in {"plain", "batched"} /\ xpc = "done") =>
        /\ Len(scraped_data) = Len(ad_wrappers)
        /\ \A i \in 1..Len(scraped_data) :
             /\ \E t \in (clock - Len(ad_wrappers))..clock :
                  scraped_data[i] = scrape_single_ad(ad_wrappers[i], keyword, t)
             /\ scraped_data[i]["keyword"] = PyStr(<<keyword>>)
             /\ scraped_data[i]["scraped_at"] /= EmptyStr

\* Three different containers were scraped in two batches.
C10_Witness ==
    /\ xmode = "batched"
    /\ xpc = "done"
    /\ batch_size = 2
    /\ Len(ad_wrappers) = 3
    /\ ad_wrappers[1] /= ad_wrappers[2]
    /\ ad_wrappers[2] /= ad_wrappers[3]
    /\ Len(scraped_data) = 3

\* C11: when a field lookup or every lookup of one item container fails, the records
\* of all well-formed containers of the same snapshot are still returned by
\* scrape_facebook_ads, each at the position of its container: the result is neither
\* emptied nor truncated.
C11_FailureIsolated ==
    (/\ xmode = "plain"
     /\ xpc = "done"
     /\ ad_wrappers = html
     /\ \E j \in 1..Len(html) : ~WellFormed(html[j])) =>
        \A i \in 1..Len(html) :
            WellFormed(html[i]) =>
                /\ i <= Len(scraped_data)
                /\ \E t \in (clock - Len(html))..clock :
                     scraped_data[i] = scrape_single_ad(html[i], keyword, t)

\* A snapshot whose second container fails in every lookup, between two containers
\* that are well formed and not empty, has been scraped.
C11_Witness ==
    /\ xmode = "plain"
    /\ xpc = "done"
    /\ Len(html) = 3
    /\ ad_wrappers = html
    /\ html[2] = FragBroken
    /\ WellFormed(html[1]) /\ html[1] /= FragEmpty
    /\ WellFormed(html[3]) /\ html[3] /= FragEmpty
    /\ Len(scraped_data) = 3
    /\ scraped_data[3]["page_name"] /= EmptyStr

(***************************************************************************)
(* Properties of the functions                                             *)
(***************************************************************************)
\* Index of the first occurrence of x in seq, 0 when there is none.
FirstIndex(seq, x) == First({i \in 1..Len(seq) : seq[i] = x})

\* The img tags with references A, B, A.
ImgsABA == <<[src |-> UrlA, data_src |-> UrlB], [src |-> UrlA, data_src |-> ""]>>

\* C12: each kind list returned by extract_media_links holds no URL twice, holds the
\* URLs the passes discovered, and orders them by their first discovery across the
\* passes; image references [A, B, A] give images = [A, B].
C12_NoDuplicateFirstSeenOrder ==
    (fn = "extract_media_links" /\ fpc = "done") =>
        /\ \A key \in {"images", "videos", "audio"} :
             LET raw == Discovered(args.element, args.base_url)[key]
                 out == ret[key]
             IN /\ \A i, j \in 1..Len(out) : i < j => out[i] /= out[j]
                /\ {out[i] : i \in 1..Len(out)} = {raw[i] : i \in 1..Len(raw)}
                /\ \A i, j \in 1..Len(out) :
                     i < j => FirstIndex(raw, out[i]) < FirstIndex(raw, out[j])
        /\ (args.element.imgs = ImgsABA /\ args.element.styles = <<>>
            /\ args.element.links = <<>> /\ args.element.text_urls = <<>>)
              => ret["images"] = <<UrlA, UrlB>>

\* A container with image references A, B, A has been processed.
C12_Witness ==
    /\ fn = "extract_media_links"
    /\ fpc = "done"
    /\ args.element.imgs = ImgsABA
    /\ args.element.links = <<>>
    /\ args.base_url = NoBase
    /\ ret["images"] = <<UrlA, UrlB>>

\* A relative and an absolute reference to the same image, found by different
\* passes, give one entry.
C12_WitnessAcrossPasses ==
    /\ fn = "extract_media_links"
    /\ fpc = "done"
    /\ args.base_url = BaseH
    /\ args.element.imgs = <<[src |-> UrlARel, data_src |-> UrlB]>>
    /\ args.element.links = <<UrlV, UrlARel, UrlB>>
    /\ ret["images"] = <<UrlA, UrlB>>

\* url.startswith(('http://', 'https://', '//'))
AlreadyAbsolute(url) ==
    StartsWith(url, "http://") \/ StartsWith(url, "https://") \/ StartsWith(url, "//")

\* The base is absent or empty, or starts with http:// or https:// in any letter case.
NoneOrHttpBase(base_url) ==
    \/ base_url = NoBase
    \/ StartsWith(Lower(base_url), "http://")
    \/ StartsWith(Lower(base_url), "https://")

\* C13 (as claimed): for every url and every base_url, absolute, relative or absent,
\* resolve_url(resolve_url(u, base), base) = resolve_url(u, base), and a url that
\* starts with http://, https:// or // is returned unchanged.
C13_IdempotentForEveryBase ==
    (fn = "resolve_url" /\ fpc = "done" /\ ~ret.raised) =>
        /\ ~ret.raised_again
        /\ ret.second = ret.first
        /\ AlreadyAbsolute(args.url) => ret.first = args.url

\* C13 (amended): whenever resolve_url(u, base) returns and base is absent, empty or
\* an http(s) URL, resolving the result against the same base returns it unchanged;
\* for every base a url that starts with http://, https:// or // is returned unchanged.
C13_IdempotentForHttpBase ==
    (fn = "resolve_url" /\ fpc = "done" /\ ~ret.raised) =>
        /\ NoneOrHttpBase(args.base_url) => (~ret.raised_again /\ ret.second = ret.first)
        /\ AlreadyAbsolute(args.url) => ret.first = args.url

\* A relative url has been resolved against an http(s) base, twice.
C13_Witness ==
    /\ fn = "resolve_url"
    /\ fpc = "done"
    /\ args.url = "../a.jpg"
    /\ args.base_url = "https://h/p/x.html"
    /\ ret.first = "https://h/a.jpg"
    /\ ret.second = "https://h/a.jpg"

\* C14: a URL whose path ends in an extension of one of the three configured sets, in
\* any letter case, is of that kind for is_media_url (photo.MP4 is video), a URL with
\* any other suffix is of no kind (file.xyz), and no URL is of more than one kind,
\* the three extension sets being pairwise disjoint.
C14_CaseInsensitiveSingleKind ==
    (fn = "is_media_url" /\ fpc = "done") =>
        /\ ret.images = (args.suffix \in IMAGE_EXTENSIONS)
        /\ ret.videos = (args.suffix \in VIDEO_EXTENSIONS)
        /\ ret.audio = (args.suffix \in AUDIO_EXTENSIONS)
        /\ Cardinality({key \in {"images", "videos", "audio"} : ret[key]}) <= 1
        /\ IMAGE_EXTENSIONS \cap VIDEO_EXTENSIONS = {}
        /\ IMAGE_EXTENSIONS \cap AUDIO_EXTENSIONS = {}
        /\ VIDEO_EXTENSIONS \cap AUDIO_EXTENSIONS = {}
        /\ args.url = "photo.MP4" => ret.videos
        /\ args.url = "file.xyz" => ~(ret.images \/ ret.videos \/ ret.audio)

\* photo.MP4 has been classified.
C14_Witness ==
    /\ fn = "is_media_url"
    /\ fpc = "done"
    /\ args.url = "photo.MP4"
    /\ ret = [images |-> FALSE, videos |-> TRUE, audio |-> FALSE]

\* The quantity a unit contributes: zero when the unit does not occur.
Quantity(q) == IF q < 0 THEN 0 ELSE q

\* The text has a duration: something follows 'Total active time'.
HasDuration ==
    args.dur.present /\ FreeText(args.dur) \o args.tail /= <<>>

\* C15: for a text with 'Total active time <free text>', activity_duration_timestamp
\* is days*86400 + hours*3600 + minutes*60 + seconds, each quantity being the number
\* found for that unit in the free text and zero for a unit that does not occur;
\* 'Started running on 28 May 2025 <middot> Total active time 3 hrs' gives start_date
\* '28 May 2025' and activity_duration_timestamp 10800.
C15_DurationIsSumOfUnits ==
    (fn = "extract_ad_times" /\ fpc = "done" /\ HasDuration) =>
        /\ ~ret.raised
        /\ ret.value.activity_duration_timestamp =
              PyInt(Quantity(args.dur.days) * 86400 + Quantity(args.dur.hours) * 3600
                    + Quantity(args.dur.minutes) * 60 + Quantity(args.dur.seconds))
        /\ args.text = <<"Started running on", "28", "May", "2025", "<middot>",
                         "Total active time", "3", "hrs">>
             => /\ ret.value.start_date = PyStr(<<"28", "May", "2025">>)
                /\ ret.value.activity_duration_timestamp = PyInt(10800)

\* A text with days, hours, minutes and seconds, and the text of the example.
C15_Witness ==
    /\ fn = "extract_ad_times"
    /\ fpc = "done"
    /\ args.text = <<"Started running on", "28", "May", "2025", "<middot>",
                     "Total active time", "3", "hrs">>
    /\ ret.value.activity_duration_timestamp = PyInt(10800)

C15_WitnessAllUnits ==
    /\ fn = "extract_ad_times"
    /\ fpc = "done"
    /\ args.dur.present /\ args.dur.spelling = 2 /\ args.dur.filler
    /\ args.dur.days = 2 /\ args.dur.hours = 1 /\ args.dur.minutes = 30
    /\ args.dur.seconds = 45
    /\ ret.value.activity_duration_timestamp = PyInt(178245)

\* C16 (as claimed): whenever the text has no duration but a start timestamp was
\* derived, for every derivable start timestamp, activity_duration_timestamp is
\* now - start_date_timestamp and activity_duration is the formatted duration
\* prefixed with 'Calculated: '; a directly parsed duration never has that prefix.
C16_CalculatedDuration ==
    (fn = "extract_ad_times" /\ fpc = "done") =>
        /\ (~HasDuration /\ args.date.kind = "valid") =>
              /\ ret.value.start_date_timestamp = PyInt(args.date.ts)
              /\ ret.value.activity_duration_timestamp = PyInt(args.now - args.date.ts)
              /\ ret.value.activity_duration =
                    PyStr(<<"Calculated:">>
                          \o format_duration_from_seconds(args.now - args.date.ts))
        /\ HasDuration =>
              (ret.value.activity_duration = EmptyStr
               \/ Head(ret.value.activity_duration.s) /= "Calculated:")

TimeKeys == {"start_date", "start_date_timestamp", "activity_duration",
             "activity_duration_timestamp", "start_at"}

\* C17: extract_ad_times never raises; every outcome is a mapping in which a field
\* that could not be derived is the empty string and the raw text is returned
\* unchanged under start_at.
C17_NeverRaises ==
    (fn = "extract_ad_times" /\ fpc = "done") =>
        /\ ~ret.raised
        /\ DOMAIN ret.value = TimeKeys
        /\ ret.value.start_at = PyStr(args.text)
        /\ args.date.kind = "none" =>
              /\ ret.value.start_date = EmptyStr
              /\ ret.value.start_date_timestamp = EmptyStr
        /\ args.date.kind = "invalid" => ret.value.start_date_timestamp = EmptyStr
        /\ (~HasDuration /\ args.date.kind /= "valid") =>
              /\ ret.value.activity_duration = EmptyStr
              /\ ret.value.activity_duration_timestamp = EmptyStr

\* A text whose date is not a calendar date has been processed: both strptime
\* attempts raised ValueError.
C17_Witness ==
    /\ fn = "extract_ad_times"
    /\ fpc = "done"
    /\ args.date.tokens = <<"31", "Sept", "2024">>
    /\ ~args.dur.present
    /\ ret.value.start_date = PyStr(<<"31", "Sept", "2024">>)
    /\ ret.value.start_date_timestamp = EmptyStr
    /\ ret.value.start_at = PyStr(args.text)

IsClick(call) == call.op = "click"

IsSelectorTest(call) ==
    call.op = "is_element_present" /\ call.selector /= LOADING_INDICATOR

\* The places in load_more_selectors of the selectors that match on the page.
PresentPlaces == {i \in DOMAIN load_more_selectors : load_more_selectors[i] \in args.present}

FirstPresent == CHOOSE i \in PresentPlaces : \A j \in PresentPlaces : i <= j

\* C20: one call of try_load_more_content clicks at most one load-more control, the
\* first selector of the ordered list that is present on the page; the selectors are
\* tested in list order and none after the clicked one is tested or clicked; when
\* none is present nothing is clicked.
C20_ClicksFirstPresentOnly ==
    (fn = "try_load_more_content" /\ fpc = "done") =>
        LET clicks == SelectSeq(ret, IsClick)
            tests == SelectSeq(ret, IsSelectorTest)
        IN /\ Len(clicks) <= 1
           /\ \A k \in DOMAIN tests : tests[k].selector = load_more_selectors[k]
           /\ clicks /= <<>> =>
                 /\ PresentPlaces /= {}
                 /\ clicks[1].selector = load_more_selectors[FirstPresent]
                 /\ ret[Len(ret)] = clicks[1]
                 /\ Len(tests) = FirstPresent
           /\ PresentPlaces /= {} => Len(tests) <= FirstPresent
           /\ (PresentPlaces /= {} /\ args.fail_at = 0) => Len(clicks) = 1
           /\ PresentPlaces = {} => clicks = <<>>
           /\ (PresentPlaces = {} /\ args.fail_at = 0) =>
                 Len(tests) = Len(load_more_selectors)

\* The second and the fourth selector are present: the second is clicked after two
\* selectors were tested, and the call ends there.
C20_Witness ==
    /\ fn = "try_load_more_content"
    /\ fpc = "done"
    /\ args.present = {load_more_selectors[2], load_more_selectors[4]}
    /\ args.fail_at = 0
    /\ Len(ret) = 4
    /\ ret[4] = BrowserCall("click", load_more_selectors[2], FALSE, FALSE)

\* No selector is present: all of them were tested and nothing was clicked.
C20_WitnessNonePresent ==
    /\ fn = "try_load_more_content"
    /\ fpc = "done"
    /\ args.present = {}
    /\ args.fail_at = 0
    /\ Len(ret) = Len(load_more_selectors) + 1
    /\ SelectSeq(ret, IsClick) = <<>>

\* ---- extract_media_links: the order of the discovery passes ----

Range(seq) == {seq[i] : i \in 1..Len(seq)}

\* The src attributes of the video / audio tags themselves, and those of the source
\* tags nested in them, resolved.
DirectSrc(tags, base_url) ==
    ResolveAll(SelectSeq([i \in 1..Len(tags) |-> tags[i].src], NonEmpty), base_url)

NestedSrc(tags, base_url) ==
    ResolveAll(SelectSeq(Flatten([i \in 1..Len(tags) |-> tags[i].sources]), NonEmpty),
               base_url)

\* What each of the five passes contributes to each kind: (1) direct and lazy-loaded
\* source attributes, (2) nested source declarations, (3) inline styles,
\* (4) hyperlink targets, (5) URLs in the text.
PassLists(element, base_url, links, text) ==
    [images |-> <<extract_from_img_tags(element, base_url), <<>>,
                  extract_from_css(element, base_url),
                  SelectSeq(links, IsImage), SelectSeq(text, IsImage)>>,
     videos |-> <<DirectSrc(element.videos, base_url), NestedSrc(element.videos, base_url),
                  <<>>, SelectSeq(links, IsVideo), SelectSeq(text, IsVideo)>>,
     audio |-> <<DirectSrc(element.audios, base_url), NestedSrc(element.audios, base_url),
                 <<>>, SelectSeq(links, IsAudio), SelectSeq(text, IsAudio)>>]

PassesOf(element, base_url) ==
    PassLists(element, base_url, extract_from_links(element, base_url),
              extract_from_text(element, base_url))

\* Passes (1) and (2) taken as one pass over the tags.
TagsAsOnePass(passes) ==
    [key \in DOMAIN passes |-> <<passes[key][1] \o passes[key][2]>> \o Tail(Tail(passes[key]))]

\* The pass that finds url first; 0 when no pass finds it.
FirstPass(url, lists) == First({i \in 1..Len(lists) : url \in Range(lists[i])})

InPassOrder(list, lists) ==
    /\ \A i \in 1..Len(list) : FirstPass(list[i], lists) >= 1
    /\ \A i \in 1..Len(list) : \A j \in (i + 1)..Len(list) :
          FirstPass(list[i], lists) <= FirstPass(list[j], lists)

\* The attribute values of the tags in document order: each tag's own src, then
\* the src of its nested source tags ("" where the attribute is missing).
TagAttrs(tags) == Flatten([i \in 1..Len(tags) |-> <<tags[i].src>> \o tags[i].sources])

\* The place in document order where the tags first give url; 0 when they do not.
TagPlaces(url, attrs, base_url) ==
    {k \in 1..Len(attrs) : attrs[k] /= "" /\ resolve_url(attrs[k], base_url) = url}

TagRank(url, attrs, base_url) == First(TagPlaces(url, attrs, base_url))

InTagOrder(list, attrs, base_url) ==
    \A i \in 1..Len(list) : \A j \in (i + 1)..Len(list) :
        (TagRank(list[i], attrs, base_url) > 0 /\ TagRank(list[j], attrs, base_url) > 0)
            => TagRank(list[i], attrs, base_url) < TagRank(list[j], attrs, base_url)

MediaLinksReturned == fn = "extract_media_links" /\ fpc = "done"

AllInPassOrder(media_links, passes) ==
    \A key \in {"images", "videos", "audio"} : InPassOrder(media_links[key], passes[key])

\* C24 (as stated): in each kind list every URL first found by an earlier one of the
\* five passes precedes every URL first found by a later pass; for videos and audio
\* all direct src URLs precede all nested source URLs.
C24_FivePassPrecedence ==
    MediaLinksReturned => AllInPassOrder(ret, PassesOf(args.element, args.base_url))

\* C24 (amended): the attributes of the media tags and their nested source tags are
\* one pass that visits the tags in document order, each tag's own src before its
\* nested sources; every URL first found by that pass precedes every URL first found
\* by the styles, the links or the text, in that order.
C24_TagPassThenLaterPasses ==
    MediaLinksReturned =>
        /\ AllInPassOrder(ret, TagsAsOnePass(PassesOf(args.element, args.base_url)))
        /\ InTagOrder(ret.videos, TagAttrs(args.element.videos), args.base_url)
        /\ InTagOrder(ret.audio, TagAttrs(args.element.audios), args.base_url)

\* A nested source of the first video tag is listed before the direct src of the
\* second one, and a hyperlink target after both.
NestedBeforeDirect(list, lists) ==
    \E i \in 1..Len(list) : \E j \in (i + 1)..Len(list) : \E k \in (j + 1)..Len(list) :
        /\ FirstPass(list[i], lists) = 2
        /\ FirstPass(list[j], lists) = 1
        /\ FirstPass(list[k], lists) = 4

C24_Witness ==
    /\ MediaLinksReturned
    /\ Len(args.element.videos) >= 2
    /\ NestedBeforeDirect(ret.videos, PassesOf(args.element, args.base_url).videos)

\* ---- extract_library_id ----

LibraryIdReturned == fn = "extract_library_id" /\ fpc = "done"

\* The places of the text where the phrase is followed by digits.
PhrasePlaces(text) ==
    {i \in 1..Len(text) : text[i] = "Library ID:" /\ i < Len(text) /\ IsDigits(text[i + 1])}

\* id is the digit string after the first place of text where digits follow the phrase.
IsNumericSuffix(id, text) ==
    \E i \in PhrasePlaces(text) :
        /\ \A j \in PhrasePlaces(text) : i <= j
        /\ id = PyStr(<<text[i + 1]>>)

LibraryIdAsSpecified(elem, id) ==
    /\ (elem.st = "present" /\ PhrasePlaces(elem.text) /= {}) => IsNumericSuffix(id, elem.text)
    /\ (elem.st = "present" /\ PhrasePlaces(elem.text) = {}) => id = PyStr(elem.text)
    /\ elem.st = "absent" => id = EmptyStr

\* C25: library_id is the digit string following 'Library ID:' when the element's
\* text holds that pattern, the element's text unchanged when it is present and the
\* pattern does not match, and the empty string when the element is absent.
C25_LibraryIdSuffixOrRawText ==
    LibraryIdReturned => LibraryIdAsSpecified(args.ad_wrapper.library_id, ret)

\* A text that holds the phrase without digits is returned whole.
C25_Witness ==
    /\ LibraryIdReturned
    /\ args.ad_wrapper.library_id.st = "present"
    /\ \E i \in 1..Len(args.ad_wrapper.library_id.text) :
          args.ad_wrapper.library_id.text[i] = "Library ID:"
    /\ PhrasePlaces(args.ad_wrapper.library_id.text) = {}
    /\ ret = PyStr(args.ad_wrapper.library_id.text)
    /\ ret /= EmptyStr

\* Digits follow a later occurrence of the phrase only: they are the result.
C25_WitnessMatch ==
    /\ LibraryIdReturned
    /\ args.ad_wrapper.library_id.st = "present"
    /\ Len(args.ad_wrapper.library_id.text) >= 4
    /\ PhrasePlaces(args.ad_wrapper.library_id.text) /= {}
    /\ 1 \notin PhrasePlaces(args.ad_wrapper.library_id.text)
    /\ args.ad_wrapper.library_id.text[1] = "Library ID:"
    /\ Len(ret.s) = 1

\* ---- extract_ad_times: the start date ----

AdTimesReturned == fn = "extract_ad_times" /\ fpc = "done"

\* C26: when the text matches 'Started running on <day> <word> <year>', the date is
\* read with the full month names first and the abbreviated ones second, the first
\* success giving start_date_timestamp; when both fail start_date keeps the matched
\* substring, start_date_timestamp is the empty string and no duration is calculated:
\* activity_duration is empty unless the text holds an explicit duration.
C26_StartDateParsedOrKeptRaw ==
    (AdTimesReturned /\ args.date.kind /= "none") =>
        /\ ~ret.raised
        /\ ret.value.start_date = PyStr(args.date.tokens)
        /\ args.date.kind = "valid" => ret.value.start_date_timestamp = PyInt(args.date.ts)
        /\ args.date.kind = "invalid" =>
              /\ ret.value.start_date_timestamp = EmptyStr
              /\ (ret.value.activity_duration = EmptyStr
                    \/ Head(ret.value.activity_duration.s) /= "Calculated:")
              /\ ~HasDuration =>
                    /\ ret.value.activity_duration = EmptyStr
                    /\ ret.value.activity_duration_timestamp = EmptyStr

\* A date that only the second attempt reads has given its timestamp.
C26_Witness ==
    /\ AdTimesReturned
    /\ args.date.tokens = <<"5", "Jan", "2025">>
    /\ strptime_timestamp(args.date.tokens, FullMonths) = -1
    /\ ret.value.start_date_timestamp = PyInt(1736035200)

\* A date that neither attempt reads, next to an explicit duration.
C26_WitnessBothFail ==
    /\ AdTimesReturned
    /\ args.date.tokens = <<"30", "February", "2025">>
    /\ HasDuration
    /\ ret.value.start_date = PyStr(<<"30", "February", "2025">>)
    /\ ret.value.start_date_timestamp = EmptyStr
    /\ ret.value.activity_duration /= EmptyStr

\* ---- format_duration_from_seconds ----

DurationFormatted == fn = "format_duration_from_seconds" /\ fpc = "done"

\* int(text) for a string of decimal digits.
DigitValue(c) == First({i \in 1..10 : DigitChar[i] = c}) - 1

RECURSIVE ToInt(_)
ToInt(text) ==
    IF text = "" THEN 0
    ELSE ToInt(SubSeq(text, 1, Len(text) - 1)) * 10 + DigitValue(SubSeq(text, Len(text), Len(text)))

UnitOrder == <<"years", "months", "days", "hours", "minutes">>

UnitWords == [years |-> <<"year", "years">>, months |-> <<"month", "months">>,
              days |-> <<"day", "days">>, hours |-> <<"hr", "hrs">>,
              minutes |-> <<"min", "mins">>]

\* The place in parts of the word of the unit; 0 when the unit was not emitted.
UnitPlace(parts, unit) ==
    First({i \in 1..Len(parts) : parts[i] = UnitWords[unit][1] \/ parts[i] = UnitWords[unit][2]})

\* The quantity parts gives for the unit; 0 when the unit was not emitted.
Emitted(parts, unit) ==
    IF UnitPlace(parts, unit) <= 1 THEN 0 ELSE ToInt(parts[UnitPlace(parts, unit) - 1])

RECURSIVE EmittedSum(_, _)
EmittedSum(parts, k) ==
    IF k = 0 THEN 0
    ELSE EmittedSum(parts, k - 1) + Emitted(parts, UnitOrder[k]) * UnitSize[UnitOrder[k]]

\* parts is made of the pairs <<quantity, word>> of units in descending order, each
\* with a quantity of at least 1 and the singular word exactly for the quantity 1.
WellFormedParts(parts) ==
    /\ Len(parts) % 2 = 0
    /\ Len(parts) = 2 * Cardinality({k \in 1..5 : UnitPlace(parts, UnitOrder[k]) /= 0})
    /\ \A k \in 1..5 :
          UnitPlace(parts, UnitOrder[k]) /= 0 =>
            /\ UnitPlace(parts, UnitOrder[k]) % 2 = 0
            /\ Emitted(parts, UnitOrder[k]) >= 1
            /\ (parts[UnitPlace(parts, UnitOrder[k])] = UnitWords[UnitOrder[k]][1])
                  <=> (Emitted(parts, UnitOrder[k]) = 1)
            /\ \A j \in 1..(k - 1) :
                  UnitPlace(parts, UnitOrder[j]) < UnitPlace(parts, UnitOrder[k])

\* Each quantity is the number of whole units in what the larger units left.
OnRunningRemainder(parts, seconds) ==
    \A k \in 1..5 :
        Emitted(parts, UnitOrder[k]) =
            (seconds - EmittedSum(parts, k - 1)) \div UnitSize[UnitOrder[k]]

\* C27: format_duration_from_seconds takes years of 31557600 s, months of 2630016 s,
\* days, hours and minutes in descending order, each from the running remainder,
\* emits a unit only with a quantity of at least 1 and returns 'less than 1 min'
\* exactly for seconds < 60; for seconds >= 0 the emitted quantities times their
\* sizes add up to seconds less a remainder smaller than 60.
C27_BucketsOnRunningRemainder ==
    DurationFormatted =>
        /\ (ret = <<"less than 1 min">>) <=> (args.seconds < 60)
        /\ args.seconds >= 60 =>
              /\ WellFormedParts(ret)
              /\ OnRunningRemainder(ret, args.seconds)
              /\ \A k \in 1..5 : Emitted(ret, UnitOrder[k]) = args[UnitOrder[k]]
              /\ args.seconds - EmittedSum(ret, 5) \in 0..59

\* A duration with every unit, in the plural, and seconds left over.
C27_Witness ==
    /\ DurationFormatted
    /\ args.seconds = 2 * 31557600 + 11 * 2630016 + 29 * 86400 + 23 * 3600 + 59 * 60 + 59
    /\ ret = <<"2", "years", "11", "months", "29", "days", "23", "hrs", "59", "mins">>

\* A duration below one minute that is not zero.
C27_WitnessBelowMinute ==
    /\ DurationFormatted
    /\ args.seconds = 59
    /\ ret = <<"less than 1 min">>

\* C28: activity_duration_timestamp, whenever extract_ad_times returns it non-empty,
\* is a number of seconds that is not negative, for every text and every current
\* time, a start date later than the current time included.
C28_DurationNotNegative ==
    (AdTimesReturned /\ ret.value.activity_duration_timestamp /= EmptyStr) =>
        /\ ret.value.activity_duration_timestamp.k = "int"
        /\ ret.value.activity_duration_timestamp.n >= 0

(***************************************************************************)
(* Part 4: consecutive runs and their listeners                            *)
(*                                                                         *)
(* Every call of scroll_to_bottom_and_get_html creates its own flag and    *)
(* starts its own daemon thread check_for_stop, which blocks in input()    *)
(* until a line or the end of the input arrives.  Nothing joins or stops   *)
(* the thread when the run returns.  A line typed by the user is read by   *)
(* one of the threads blocked in input().                                  *)
(***************************************************************************)
MaxRuns == 3          \* runs per process

Waiting == {t \in 1..run_count : threads[t] = "waiting"}

\* stop_scrolling = False; stop_thread = threading.Thread(target=check_for_stop,
\* daemon=True); stop_thread.start(); the run enters its loop.
RunStarts ==
    /\ rpc = "idle"
    /\ run_count < MaxRuns
    /\ run_count' = run_count + 1
    /\ flags' = Append(flags, FALSE)
    /\ threads' = Append(threads, "waiting")
    /\ endings' = Append(endings, "running")
    /\ rpc' = "looping"
    /\ UNCHANGED <<acqVars, exVars, fnVars, adaptVars, kwVars>>

\* The user presses Enter: input() returns in one of the threads blocked in it,
\* which sets the stop_scrolling of its own run and ends.
EnterPressed ==
    /\ \E t \in Waiting :
         /\ flags' = [flags EXCEPT ![t] = TRUE]
         /\ threads' = [threads EXCEPT ![t] = "finished"]
    /\ UNCHANGED <<run_count, rpc, endings>>
    /\ UNCHANGED <<acqVars, exVars, fnVars, adaptVars, kwVars>>

\* input() raises in one of the threads (end of input): except: pass.
InputRaises ==
    /\ \E t \in Waiting : threads' = [threads EXCEPT ![t] = "finished"]
    /\ UNCHANGED <<run_count, rpc, flags, endings>>
    /\ UNCHANGED <<acqVars, exVars, fnVars, adaptVars, kwVars>>

\* while not stop_scrolling: the test fails, the run returns the page source.
LoopSeesFlag ==
    /\ rpc = "looping"
    /\ flags[run_count]
    /\ endings' = [endings EXCEPT ![run_count] = "flag"]
    /\ rpc' = "idle"
    /\ UNCHANGED <<run_count, flags, threads>>
    /\ UNCHANGED <<acqVars, exVars, fnVars, adaptVars, kwVars>>

\* except KeyboardInterrupt / except Exception: the run leaves the loop and
\* returns; its thread stays as it is.
LoopRaises ==
    /\ rpc = "looping"
    /\ \E exc \in {"KeyboardInterrupt", "Exception"} :
         endings' = [endings EXCEPT ![run_count] = exc]
    /\ rpc' = "idle"
    /\ UNCHANGED <<run_count, flags, threads>>
    /\ UNCHANGED <<acqVars, exVars, fnVars, adaptVars, kwVars>>

InitRuns == AcqIdle /\ ExIdle /\ FnIdle /\ LaterIdle

NextRuns ==
    \/ RunStarts
    \/ EnterPressed
    \/ InputRaises
    \/ LoopSeesFlag
    \/ LoopRaises

\* The runs of one process, one after the other.
SpecRuns == InitRuns /\ [][NextRuns]_vars

\* C21: while a run is in progress exactly one listener exists, also across
\* consecutive runs: when a run starts no thread of an earlier run is still waiting
\* for input, and a stop request issued during a run sets the flag of that run.
C21_OneListenerPerRun ==
    /\ [][rpc' = "looping" => Waiting' \subseteq {run_count'}]_vars
    /\ [][(rpc = "looping" /\ flags' /= flags) => flags'[run_count]]_vars

(***************************************************************************)
(* Part 5: AdaptiveScrollController                                        *)
(*                                                                         *)
(* A wait time is the pair <<n, k>> that stands for n / 10^k seconds, kept *)
(* without trailing zeros, so that the products by 1.2 and 0.9 are exact.  *)
(* adaptive_scroll_and_wait counts the items, scrolls, sleeps, counts      *)
(* again, updates the metrics and adjusts the wait; the statistics that    *)
(* only feed the report (elements_loaded, average_load_time,               *)
(* last_element_count) are left out.                                       *)
(***************************************************************************)
MaxAttempts == 21     \* calls of adaptive_scroll_and_wait per controller

maxlen == 10          \* deque(maxlen=10)

RECURSIVE Pow10(_)
Pow10(k) == IF k = 0 THEN 1 ELSE 10 * Pow10(k - 1)

RECURSIVE Normal(_)
Normal(w) == IF w[2] > 0 /\ w[1] % 10 = 0 THEN Normal(<<w[1] \div 10, w[2] - 1>>) ELSE w

\* w * tenths / 10
Times(w, tenths) == Normal(<<w[1] * tenths, w[2] + 1>>)

WaitLess(a, b) == a[1] * Pow10(b[2]) < b[1] * Pow10(a[2])

\* min(a, b) and max(a, b) of Python: the first argument unless the second is
\* smaller (larger).
WaitMin(a, b) == IF WaitLess(b, a) THEN b ELSE a

WaitMax(a, b) == IF WaitLess(a, b) THEN b ELSE a

\* The initial_wait_time of the controllers of the model: the default 2.0,
\* 5.0, and 10.0.
InitialWaits == {<<2, 0>>, <<5, 0>>, <<10, 0>>}

\* success_rate = successful_scrolls / max(1, scroll_attempts), compared with a
\* decimal fraction hundredths / 100.
RateBelow(successes, attempts, hundredths) ==
    successes * 100 < hundredths * (IF attempts < 1 THEN 1 ELSE attempts)

RateAbove(successes, attempts, hundredths) ==
    successes * 100 > hundredths * (IF attempts < 1 THEN 1 ELSE attempts)

\* _adjust_timing: the new current_wait_time.
adjust_timing(wait, base, successes, attempts) ==
    IF RateBelow(successes, attempts, 80) THEN WaitMin(Times(wait, 12), <<8, 0>>)
    ELSE IF RateAbove(successes, attempts, 95) /\ WaitLess(base, wait)
      THEN WaitMax(Times(wait, 9), base)
    ELSE wait

\* deque.append on a deque with maxlen: the oldest entry leaves a full deque.
DequeAppend(deque, x) ==
    IF Len(deque) = maxlen THEN Append(Tail(deque), x) ELSE Append(deque, x)

\* AdaptiveScrollController(initial_wait_time)
AdaptInit ==
    /\ base_wait_time \in InitialWaits
    /\ current_wait_time = base_wait_time
    /\ scroll_attempts = 0
    /\ successful_scrolls = 0
    /\ load_times = <<>>

\* adaptive_scroll_and_wait: loaded tells whether final_count > initial_count.
\* _update_metrics, then _adjust_timing.
AdaptiveScrollAndWait ==
    /\ scroll_attempts < MaxAttempts
    /\ \E loaded \in BOOLEAN :
         /\ scroll_attempts' = scroll_attempts + 1
         /\ successful_scrolls' = successful_scrolls + (IF loaded THEN 1 ELSE 0)
         /\ load_times' = DequeAppend(load_times, loaded)
         /\ current_wait_time' =
               adjust_timing(current_wait_time, base_wait_time,
                             successful_scrolls + (IF loaded THEN 1 ELSE 0),
                             scroll_attempts + 1)
    /\ UNCHANGED base_wait_time
    /\ UNCHANGED <<acqVars, exVars, fnVars, runVars, kwVars>>

InitAdapt == AcqIdle /\ ExIdle /\ FnIdle /\ RunsIdle /\ KwIdle /\ AdaptInit

NextAdapt == AdaptiveScrollAndWait

\* One controller and its calls of adaptive_scroll_and_wait.
SpecAdapt == InitAdapt /\ [][NextAdapt]_vars

\* clamp(w, base, 8.0)
Clamped(w, base) == WaitMax(base, WaitMin(w, <<8, 0>>))

WithinBounds(w, base) == ~WaitLess(w, base) /\ ~WaitLess(<<8, 0>>, w)

\* C22: for every initial_wait_time and after any sequence of scroll outcomes,
\* base_wait_time <= current_wait_time <= 8.0; an increase multiplies the wait by
\* 1.2 and a decrease by 0.9 before the result is clamped.
C22_WaitAlwaysClamped ==
    /\ [](WithinBounds(current_wait_time, base_wait_time))
    /\ [][current_wait_time' /= current_wait_time =>
            current_wait_time' \in {Clamped(Times(current_wait_time, 12), base_wait_time),
                                    Clamped(Times(current_wait_time, 9), base_wait_time)}]_vars

\* The successes among the entries of the deque.
RECURSIVE Successes(_)
Successes(outcomes) ==
    IF outcomes = <<>> THEN 0
    ELSE (IF Head(outcomes) THEN 1 ELSE 0) + Successes(Tail(outcomes))

\* C23: the success rate that drives _adjust_timing is the rate over the last 10
\* attempts only: successful_scrolls / scroll_attempts equals the successes among
\* the most recent 10 attempts divided by the number of those attempts.
C23_RateOverLastTen ==
    scroll_attempts >= 1 =>
        successful_scrolls * Len(load_times) = Successes(load_times) * scroll_attempts

(***************************************************************************)
(* Part 6: ConcurrentKeywordProcessor.process_keywords_batch               *)
(*                                                                         *)
(* The keywords are cut into batches of max_concurrent; every batch gets   *)
(* its own ThreadPoolExecutor(max_workers=max_concurrent), whose with      *)
(* block ends only when all its futures are done.  A mapping from keywords *)
(* is a function on the keywords it holds.                                 *)
(***************************************************************************)
MaxKeywords == 3      \* keywords per call

MaxConcurrent == 2    \* max_concurrent 1..MaxConcurrent

KeywordPool == {"shoes", "bags"}

\* The keyword indexes of the batch that starts at index start.
BatchOf(start) ==
    {i \in 1..Len(keywords) : start <= i /\ i < start + max_concurrent}

Running(batch) == {i \in batch : tasks[i] = "running"}

\* A fresh processor and one call process_keywords_batch(keywords, scraper_instance).
KwInit ==
    /\ keywords \in UNION {[1..n -> KeywordPool] : n \in 0..MaxKeywords}
    /\ max_concurrent \in 1..MaxConcurrent
    /\ kpc = "call"
    /\ batch_start = 1
    /\ tasks = [i \in 1..Len(keywords) |-> "unsubmitted"]
    /\ raising = {}
    /\ kw_results = <<>>
    /\ all_results = <<>>
    /\ failed_keywords = <<>>

\* The next batch enters _process_single_batch: batch_results = {}, the executor
\* is created and every keyword of the batch is submitted.
SubmitBatch ==
    /\ kpc \in {"call", "between"}
    /\ batch_start <= Len(keywords)
    /\ tasks' = [i \in 1..Len(keywords) |->
                   IF i \in BatchOf(batch_start) THEN "queued" ELSE tasks[i]]
    /\ kw_results' = <<>>
    /\ kpc' = "batch"
    /\ UNCHANGED <<keywords, max_concurrent, batch_start, raising, all_results,
                   failed_keywords>>
    /\ UNCHANGED <<acqVars, exVars, fnVars, runVars, adaptVars>>

\* A worker thread of the executor takes a submitted task: scrape_keyword starts.
WorkerStarts ==
    /\ kpc = "batch"
    /\ Cardinality(Running(BatchOf(batch_start))) < max_concurrent
    /\ \E i \in BatchOf(batch_start) :
         /\ tasks[i] = "queued"
         /\ tasks' = [tasks EXCEPT ![i] = "running"]
    /\ UNCHANGED <<keywords, max_concurrent, kpc, batch_start, raising, kw_results,
                   all_results, failed_keywords>>
    /\ UNCHANGED <<acqVars, exVars, fnVars, runVars, adaptVars>>

\* scrape_keyword returns a value or raises: the future is done.
ScrapeEnds ==
    /\ \E i \in 1..Len(keywords) :
         /\ tasks[i] = "running"
         /\ \E raised \in BOOLEAN :
              /\ tasks' = [tasks EXCEPT ![i] = IF raised THEN "raised" ELSE "returned"]
              /\ raising' = IF raised THEN raising \cup {i} ELSE raising
    /\ UNCHANGED <<keywords, max_concurrent, kpc, batch_start, kw_results, all_results,
                   failed_keywords>>
    /\ UNCHANGED <<acqVars, exVars, fnVars, runVars, adaptVars>>

\* for future in as_completed(future_to_keyword): one done future is handled;
\* future.result() gives the value (success is what the scrape returned) or raises.
Collect ==
    /\ kpc = "batch"
    /\ \E i \in BatchOf(batch_start) : \E success \in BOOLEAN :
         /\ tasks[i] \in {"returned", "raised"}
         /\ tasks[i] = "raised" => ~success
         /\ kw_results' = (keywords[i] :> success) @@ kw_results
         /\ failed_keywords' = IF tasks[i] = "raised"
                                  THEN Append(failed_keywords, keywords[i])
                                  ELSE failed_keywords
         /\ tasks' = [tasks EXCEPT ![i] = "collected"]
    /\ UNCHANGED <<keywords, max_concurrent, kpc, batch_start, raising, all_results>>
    /\ UNCHANGED <<acqVars, exVars, fnVars, runVars, adaptVars>>

\* The batch is left although futures of it are not done.
BatchEndsWithoutWaiting ==
    /\ kpc = "batch"
    /\ all_results' = kw_results @@ all_results
    /\ batch_start' = batch_start + max_concurrent
    /\ kpc' = IF batch_start + max_concurrent <= Len(keywords) THEN "between" ELSE "done"
    /\ UNCHANGED <<keywords, max_concurrent, tasks, raising, kw_results, failed_keywords>>
    /\ UNCHANGED <<acqVars, exVars, fnVars, runVars, adaptVars>>

\* Every future of the batch has been handled: the with block ends,
\* all_results.update(batch_results); the delay follows unless this was the last
\* batch, after which all_results is returned.
BatchEnds ==
    /\ kpc = "batch"
    /\ \A i \in BatchOf(batch_start) : tasks[i] = "collected"
    /\ all_results' = kw_results @@ all_results
    /\ batch_start' = batch_start + max_concurrent
    /\ kpc' = IF batch_start + max_concurrent <= Len(keywords) THEN "between" ELSE "done"
    /\ UNCHANGED <<keywords, max_concurrent, tasks, raising, kw_results, failed_keywords>>
    /\ UNCHANGED <<acqVars, exVars, fnVars, runVars, adaptVars>>

\* No keywords: there is no batch and the empty mapping is returned.
ReturnEmpty ==
    /\ kpc = "call"
    /\ keywords = <<>>
    /\ kpc' = "done"
    /\ UNCHANGED <<keywords, max_concurrent, batch_start, tasks, raising, kw_results,
                   all_results, failed_keywords>>
    /\ UNCHANGED <<acqVars, exVars, fnVars, runVars, adaptVars>>

InitKw == AcqIdle /\ ExIdle /\ FnIdle /\ RunsIdle /\ AdaptIdle /\ KwInit

NextKw ==
    \/ SubmitBatch
    \/ WorkerStarts
    \/ ScrapeEnds
    \/ Collect
    \/ BatchEnds
    \/ ReturnEmpty

\* One call of process_keywords_batch on a fresh processor.
SpecKw == InitKw /\ [][NextKw]_vars

\* The batch number of a keyword index.
BatchNumber(i) == (i - 1) \div max_concurrent

Started(i) == tasks[i] \in {"running", "returned", "raised", "collected"}

Finished(i) == tasks[i] \in {"returned", "raised", "collected"}

\* How often the keyword occurs in the list.
Occurrences(list, k) == Cardinality({j \in 1..Len(list) : list[j] = k})

\* C29: process_keywords_batch never runs more than max_concurrent scrapes at once
\* and never starts a scrape of a batch before every scrape of the batch before it
\* has finished; when it returns the result mapping has an entry for every keyword
\* and failed_keywords holds exactly the keywords whose scrape raised, each once per
\* raising scrape.
C29_BatchesBoundedAndComplete ==
    /\ Cardinality(Running(1..Len(keywords))) <= max_concurrent
    /\ \A i, j \in 1..Len(keywords) :
          (BatchNumber(i) < BatchNumber(j) /\ Started(j)) => Finished(i)
    /\ kpc = "done" =>
          /\ \A i \in 1..Len(keywords) : keywords[i] \in DOMAIN all_results
          /\ \A k \in KeywordPool :
                Occurrences(failed_keywords, k)
                  = Cardinality({i \in raising : keywords[i] = k})

\* A call with two batches has returned; a keyword given twice raised both times
\* and a scrape of the other keyword returned.
C29_Witness ==
    /\ kpc = "done"
    /\ max_concurrent = 2
    /\ Len(keywords) = 3
    /\ Cardinality(raising) = 2
    /\ \E i, j \in raising : i /= j /\ keywords[i] = keywords[j]
    /\ Len(failed_keywords) = 2
    /\ DOMAIN all_results = KeywordPool

=============================================================================
